---- MODULE Spec2Model ----
(***************************************************************************)
(* A state-machine model of the Game-of-Life repository:                   *)
(*   - the 2D component  src/src/components/GameOfLife.tsx   (toroidal     *)
(*     lattice, rule engine, history buffer with undo / scrub preview),    *)
(*   - the 3D component  src/src/components/GameOfLife3D.tsx (shell of a   *)
(*     W x H x D lattice) with src/src/utils/gridGeometry.ts.              *)
(*                                                                         *)
(* React state and refs are the variables.  A handler is one action; the   *)
(* re-render that follows a handler (which copies state into the *Ref      *)
(* mirrors, lines 161-177) is part of the action, so a ref and its state   *)
(* are one variable.  draw() only paints the canvas and is not modelled.   *)
(***************************************************************************)
EXTENDS Integers, Sequences, FiniteSets, TLC

(***************************************************************************)
(* Bounds of the model (not program constants).                            *)
(***************************************************************************)
\* rows / cols that calculateGridDimensions() yields for the first window
GridRows == 2
GridCols == 2
\* number of handler invocations explored by Spec
MaxOps == 3
\* number of generations explored by SpecAge (the claim speaks of 300)
MaxGenerations == 300
\* side of the lattices SpecStep draws its inputs from
StepSide == 4
\* largest age SpecStep puts into an input lattice
StepMaxAge == 2
\* number of cells (in row-major order) SpecStep lets be alive
StepLiveCells == 9
\* side of the cube of the 3D model (32 in the program)
CubeSide == 4
\* number of handler invocations explored by Spec3D
MaxOps3D == 2
\* handler calls in a run of SpecCalls
MaxCalls == 2

\* the largest lattice side a pattern is stamped on
StampSide == 4

\* the largest side of a lattice whose panels are placed
GeomSide == 3

\* the side of the torus a Glider travels on, and the steps it takes
GliderSide == 16
GliderSteps == 4

\* the largest side of a lattice holding a block, and the steps it is given
BlockSide == 4
BlockSteps == 3

\* handler calls in a run of SpecRefs
MaxRefOps == 4

\* play / pause clicks and timer callbacks in a run of SpecLoop3D
MaxLoopOps == 8

(***************************************************************************)
(* Program constants.                                                      *)
(***************************************************************************)
\* historyRef.current.length > 100  (GameOfLife.tsx:300)
HistoryLimit == 100
\* playbackIndex === null (GameOfLife.tsx:153)
Null == -1
\* the value of an array slot that does not exist (JS undefined)
Undefined == -2

RULE_SETS ==
  << [name |-> "Conway (Standard)",   born |-> {3},       survive |-> {2, 3}],
     [name |-> "HighLife",            born |-> {3, 6},    survive |-> {2, 3}],
     [name |-> "Day & Night",         born |-> {3, 6, 7, 8}, survive |-> {3, 4, 6, 7, 8}],
     [name |-> "Seeds",               born |-> {2},       survive |-> {}],
     [name |-> "Life without Death",  born |-> {3},       survive |-> 0..8] >>

PATTERNS ==
  [ Glider |-> << <<0,1>>, <<1,2>>, <<2,0>>, <<2,1>>, <<2,2>> >>,
    LightweightSpaceship |->
      << <<0,1>>, <<0,4>>, <<1,0>>, <<2,0>>, <<2,4>>,
         <<3,0>>, <<3,1>>, <<3,2>>, <<3,3>> >>,
    Pulsar |->
      << <<2,4>>, <<2,5>>, <<2,6>>, <<2,10>>, <<2,11>>, <<2,12>>,
         <<4,2>>, <<4,7>>, <<4,9>>, <<4,14>>,
         <<5,2>>, <<5,7>>, <<5,9>>, <<5,14>>,
         <<6,2>>, <<6,7>>, <<6,9>>, <<6,14>>,
         <<7,4>>, <<7,5>>, <<7,6>>, <<7,10>>, <<7,11>>, <<7,12>>,
         <<9,4>>, <<9,5>>, <<9,6>>, <<9,10>>, <<9,11>>, <<9,12>>,
         <<10,2>>, <<10,7>>, <<10,9>>, <<10,14>>,
         <<11,2>>, <<11,7>>, <<11,9>>, <<11,14>>,
         <<12,2>>, <<12,7>>, <<12,9>>, <<12,14>>,
         <<14,4>>, <<14,5>>, <<14,6>>, <<14,10>>, <<14,11>>, <<14,12>> >>,
    GosperGliderGun |->
      << <<5,1>>, <<5,2>>, <<6,1>>, <<6,2>>,
         <<5,11>>, <<6,11>>, <<7,11>>, <<4,12>>, <<8,12>>, <<3,13>>, <<9,13>>,
         <<3,14>>, <<9,14>>, <<6,15>>, <<4,16>>, <<8,16>>, <<5,17>>, <<6,17>>,
         <<7,17>>, <<6,18>>,
         <<3,21>>, <<4,21>>, <<5,21>>, <<3,22>>, <<4,22>>, <<5,22>>, <<2,23>>,
         <<6,23>>, <<1,25>>, <<2,25>>, <<6,25>>, <<7,25>>,
         <<3,35>>, <<4,35>>, <<3,36>>, <<4,36>> >> ]

PatternNames == DOMAIN PATTERNS

OPERATIONS ==
  << <<0, 1>>, <<0, -1>>, <<1, -1>>, <<-1, 1>>,
     <<1, 1>>, <<-1, -1>>, <<1, 0>>, <<-1, 0>> >>

(***************************************************************************)
(* Lattices.  A GridType (number[][]) is a function from 0..rows-1 to rows,*)
(* a row a function from 0..len-1 to ages.  JS lets a write past the end   *)
(* of a row lengthen it, so rows of one grid may differ in length.         *)
(***************************************************************************)
Rows(g) == Cardinality(DOMAIN g)

Cols(g) == IF Rows(g) = 0 THEN 0 ELSE Cardinality(DOMAIN g[0])

\* g[i][k] for an existing row i: the age, or undefined past the row's end
Cell(g, i, k) == IF k \in DOMAIN g[i] THEN g[i][k] ELSE Undefined

\* row[k] = v, lengthening the row as a JS array does
SetRow(row, k, v) ==
  IF k \in DOMAIN row
    THEN [row EXCEPT ![k] = v]
    ELSE [j \in 0..k |-> IF j \in DOMAIN row THEN row[j]
                         ELSE IF j = k THEN v ELSE Undefined]

SetCell(g, i, k, v) == [g EXCEPT ![i] = SetRow(g[i], k, v)]

generateEmptyGrid(rows, cols) ==
  [i \in 0..(rows - 1) |-> [k \in 0..(cols - 1) |-> 0]]

(***************************************************************************)
(* Rule engine, 2D (runStep, GameOfLife.tsx:306-369).                      *)
(***************************************************************************)
\* const newGrid = g.map(row => [...row]) (line 316): the two buffers of the
\* loop; aliased says that a write to newGrid is a write to g as well
AliasedBuffers(g) ==
  [g |-> g, newGrid |-> g, aliased |-> TRUE, bornCount |-> 0, bornRowSum |-> 0]

DoubleBuffer(g) ==
  [g |-> g, newGrid |-> g, aliased |-> FALSE, bornCount |-> 0, bornRowSum |-> 0]

\* newGrid[i][k] = v
WriteNew(buf, i, k, v) ==
  [buf EXCEPT !.newGrid = SetCell(buf.newGrid, i, k, v),
              !.g = IF buf.aliased THEN SetCell(buf.g, i, k, v) ELSE buf.g]

\* a neighbour index held at the lattice's edge instead of wrapped
WrapClamped(i, x, rows) ==
  IF i + x < 0 THEN 0 ELSE IF i + x > rows - 1 THEN rows - 1 ELSE i + x

\* (i + x + rows) % rows, (k + y + cols) % cols
Wrap(i, x, rows) == (i + x + rows) % rows

\* OPERATIONS.forEach(... if (g[newI][newK] > 0) neighbors += 1 ...), the
\* first n entries of OPERATIONS
RECURSIVE NeighborSum(_, _, _, _, _, _)
NeighborSum(g, i, k, rows, cols, n) ==
  IF n = 0 THEN 0
  ELSE NeighborSum(g, i, k, rows, cols, n - 1)
       + (IF Cell(g, Wrap(i, OPERATIONS[n][1], rows),
                     Wrap(k, OPERATIONS[n][2], cols)) > 0 THEN 1 ELSE 0)

\* newGrid[i][k] += 1
SurvivorAge(age) == age + 1

\* a birth counted with its row number taken from 1
BornRowFromOne(buf, i) ==
  [buf EXCEPT !.bornCount = @ + 1, !.bornRowSum = @ + i + 1]

\* bornCount++; bornRowSum += i, lines 346-347
Born(buf, i) == [buf EXCEPT !.bornCount = @ + 1, !.bornRowSum = @ + i]

\* the body of the double loop for cell (i, k), lines 325-349
StepCell(buf, i, k, rows, cols, rule) ==
  LET neighbors == NeighborSum(buf.g, i, k, rows, cols, Len(OPERATIONS))
      isAlive   == Cell(buf.g, i, k) > 0
  IN  IF isAlive
        THEN IF neighbors \notin rule.survive
               THEN WriteNew(buf, i, k, 0)
               ELSE WriteNew(buf, i, k, SurvivorAge(Cell(buf.newGrid, i, k)))
        ELSE IF neighbors \in rule.born
               THEN Born(WriteNew(buf, i, k, 1), i)
               ELSE buf

\* the inner loop of row i from column k on: for (k = 0; k < cols; k++),
\* cols being g[0].length
RECURSIVE StepRow(_, _, _, _, _, _)
StepRow(buf, i, k, rows, cols, rule) ==
  IF k >= Cols(buf.g) THEN buf
  ELSE StepRow(StepCell(buf, i, k, rows, cols, rule), i, k + 1, rows, cols,
               rule)

\* the outer loop from row i on: for (i = 0; i < rows; i++), rows being
\* g.length
RECURSIVE StepLoop(_, _, _, _, _)
StepLoop(buf, i, rows, cols, rule) ==
  IF i >= Rows(buf.g) THEN buf
  ELSE StepLoop(StepRow(buf, i, 0, rows, cols, rule), i + 1, rows, cols, rule)

\* playGenerationSound is not called
NoSound == [called |-> FALSE, bornCount |-> 0, bornRowSum |-> 0, rows |-> 0]

\* soundEngine.playGenerationSound(bornCount, avgRow, rows), lines 356-360,
\* avgRow being bornRowSum / bornCount
SoundCall(buf) ==
  IF buf.bornCount > 0
    THEN [called |-> TRUE, bornCount |-> buf.bornCount,
          bornRowSum |-> buf.bornRowSum, rows |-> Rows(buf.g)]
    ELSE NoSound

\* the buffers when the loop of runStep ends, for a grid with a row
StepBuffers(g, rule) ==
  StepLoop(DoubleBuffer(g), 0, Rows(g), Cols(g), rule)

(***************************************************************************)
(* History buffer (addToHistory, handleUndo, handleScrub).                 *)
(* historyRef.current is a sequence of frames; frame index i of the code   *)
(* is element i + 1 here.                                                  *)
(***************************************************************************)
\* historyRef.current after addToHistory(gridState), p the preview index
AddToHistoryNoEvict(h, p, gridState) ==
  Append(IF p # Null THEN SubSeq(h, 1, p) ELSE h, gridState)

AddToHistoryEvictNewest(h, p, gridState) ==
  LET kept   == IF p # Null THEN SubSeq(h, 1, p) ELSE h
      pushed == Append(kept, gridState)
  IN  IF Len(pushed) > HistoryLimit THEN SubSeq(pushed, 1, HistoryLimit) ELSE pushed

AddToHistoryKeepFuture(h, p, gridState) ==
  LET pushed == Append(h, gridState)
  IN  IF Len(pushed) > HistoryLimit THEN Tail(pushed) ELSE pushed

AddToHistory(h, p, gridState) ==
  LET kept   == IF p # Null THEN SubSeq(h, 1, p) ELSE h
      pushed == Append(kept, gridState)
  IN  IF Len(pushed) > HistoryLimit THEN Tail(pushed) ELSE pushed

\* historyRef.current after handleScrub(index) found the frame
ScrubHistoryDestructive(h, index) == SubSeq(h, 1, index)

ScrubHistory(h, index) == h

\* gridRef.current after handleScrub(index) found the frame
ScrubGridLatest(h, index) == h[Len(h)]

ScrubGrid(h, index) == h[index + 1]

\* the generation counter after handleScrub(index) found the frame:
\* setGeneration(g => Math.max(0, g)), line 441
ScrubGenerationRewind(g, h, index) ==
  IF g - (Len(h) - index) >= 0 THEN g - (Len(h) - index) ELSE 0

ScrubGeneration(g, h, index) == IF g >= 0 THEN g ELSE 0

\* historyRef.current[index] is a frame
HasFrame(h, index) == index >= 0 /\ index < Len(h)

\* the frame handleUndo pops, and what it leaves
UndoFrameOldest(h) == h[1]

UndoFrame(h) == h[Len(h)]

UndoRest(h) == SubSeq(h, 1, Len(h) - 1)

(***************************************************************************)
(* Pattern placement (handleCellInteract stamp branch, handlePatternLoad). *)
(***************************************************************************)
\* pattern.forEach(([pr, pc]) => newGrid[(r+pr+rows)%rows][(c+pc+cols)%cols] = 1),
\* the first n offsets of the pattern
RECURSIVE StampLoop(_, _, _, _, _, _, _)
StampLoop(newGrid, pattern, n, r, c, rows, cols) ==
  IF n = 0 THEN newGrid
  ELSE SetCell(StampLoop(newGrid, pattern, n - 1, r, c, rows, cols),
               Wrap(r, pattern[n][1], rows), Wrap(c, pattern[n][2], cols), 1)

\* a stamp that drops the offsets falling outside the lattice, not wrapping
StampClipped(newGrid, pattern, r, c, rows, cols) ==
  LET inside(o) == r + o[1] < rows /\ c + o[2] < cols
      kept == SelectSeq(pattern, inside)
  IN  StampLoop(newGrid, kept, Len(kept), r, c, rows, cols)

Stamp(newGrid, pattern, r, c, rows, cols) ==
  StampLoop(newGrid, pattern, Len(pattern), r, c, rows, cols)

(***************************************************************************)
(* Lattice addressing and shell (gridGeometry.ts), 3D constants.           *)
(***************************************************************************)
\* WIDTH = HEIGHT = DEPTH = 32 in GameOfLife3D.tsx:13-15; the model takes a
\* smaller cube
WIDTH == CubeSide

HEIGHT == CubeSide

DEPTH == CubeSide

TOTAL_CELLS == WIDTH * HEIGHT * DEPTH

RULE_SETS_3D ==
  << [name |-> "Conway Classic (2D Surface)", born |-> {3}, survive |-> {2, 3}],
     [name |-> "HighLife (2D Surface)", born |-> {3, 6}, survive |-> {2, 3}],
     [name |-> "Day & Night (2D Surface)", born |-> {3, 6, 7, 8},
      survive |-> {3, 4, 6, 7, 8}] >>

\* the plane stride taken as width * width
getIndexSquare(x, y, z, width, height) == x + y * width + z * width * width

getIndex(x, y, z, width, height) == x + y * width + z * width * height

getCoords(index, width, height) ==
  [ x |-> (index % (width * height)) % width,
    y |-> (index % (width * height)) \div width,
    z |-> index \div (width * height) ]

isShellAlways(x, y, z, width, height, depth) == TRUE

isShell(x, y, z, width, height, depth) ==
  \/ x = 0 \/ x = width - 1
  \/ y = 0 \/ y = height - 1
  \/ z = 0 \/ z = depth - 1

\* new Uint8Array(TOTAL_CELLS)
generateEmptyGrid3D == [idx \in 0..(TOTAL_CELLS - 1) |-> 0]

\* a store into a Uint8Array keeps the low 8 bits
StoreUint8(v) == v % 256

\* generateRandomGrid, lines 36-49; bits[idx] is what Math.random() > 0.75
\* gives when the loop reaches the cell
generateRandomGrid(bits) ==
  [idx \in 0..(TOTAL_CELLS - 1) |->
     LET p == getCoords(idx, WIDTH, HEIGHT)
     IN  IF isShell(p.x, p.y, p.z, WIDTH, HEIGHT, DEPTH) THEN bits[idx] ELSE 0]

(***************************************************************************)
(* Rule engine, 3D shell (runStep, GameOfLife3D.tsx:427-635).              *)
(***************************************************************************)
\* const nx = x + dx (lines 491-499)
NeighborCoordWrapped(x, dx, size) == (x + dx + size) % size

NeighborCoord(x, dx, size) == x + dx

\* the three nested loops over dx, dy, dz in -1..1, lines 463-599: the
\* count after the first n of the 27 offsets
RECURSIVE NeighborSum3D(_, _, _, _, _)
NeighborSum3D(prevGrid, x, y, z, n) ==
  IF n = 0 THEN 0
  ELSE LET dx == ((n - 1) \div 9) - 1
           dy == (((n - 1) \div 3) % 3) - 1
           dz == ((n - 1) % 3) - 1
           nx == NeighborCoord(x, dx, WIDTH)
           ny == NeighborCoord(y, dy, HEIGHT)
           nz == NeighborCoord(z, dz, DEPTH)
           counted ==
             /\ ~(dx = 0 /\ dy = 0 /\ dz = 0)
             /\ ~(nx < 0 \/ nx >= WIDTH \/ ny < 0 \/ ny >= HEIGHT
                  \/ nz < 0 \/ nz >= DEPTH)
             /\ isShell(nx, ny, nz, WIDTH, HEIGHT, DEPTH)
             /\ prevGrid[getIndex(nx, ny, nz, WIDTH, HEIGHT)] > 0
       IN  NeighborSum3D(prevGrid, x, y, z, n - 1) + (IF counted THEN 1 ELSE 0)

\* Math.min(prevGrid[idx] + 1, 255)
SurvivorAge3DUncapped(age) == age + 1

SurvivorAge3D(age) == IF age + 1 < 255 THEN age + 1 ELSE 255

\* nextGrid[idx] when the loops end, lines 445-623
StepCell3D(prevGrid, idx, rule) ==
  LET p == getCoords(idx, WIDTH, HEIGHT)
      neighbors == NeighborSum3D(prevGrid, p.x, p.y, p.z, 27)
  IN  IF ~isShell(p.x, p.y, p.z, WIDTH, HEIGHT, DEPTH) THEN 0
      ELSE IF prevGrid[idx] > 0
        THEN IF neighbors \in rule.survive
               THEN StoreUint8(SurvivorAge3D(prevGrid[idx]))
               ELSE 0
        ELSE IF neighbors \in rule.born THEN 1 ELSE 0

\* the grid the setGrid updater of runStep returns
NextGrid3D(prevGrid, rule) ==
  [idx \in 0..(TOTAL_CELLS - 1) |-> StepCell3D(prevGrid, idx, rule)]

\* handleToggleCell, lines 681-689: the grid after the call
ToggleCellUnguarded(prev, x, y, z) ==
  LET idx == getIndex(x, y, z, WIDTH, HEIGHT)
  IN  [prev EXCEPT ![idx] = IF prev[idx] > 0 THEN 0 ELSE 1]

ToggleCell(prev, x, y, z) ==
  IF ~isShell(x, y, z, WIDTH, HEIGHT, DEPTH) THEN prev
  ELSE LET idx == getIndex(x, y, z, WIDTH, HEIGHT)
       IN  [prev EXCEPT ![idx] = IF prev[idx] > 0 THEN 0 ELSE 1]

(***************************************************************************)
(* Inputs of the handlers.                                                 *)
(***************************************************************************)
\* what calculateGridDimensions() may yield as the window changes
WindowSizes ==
  { <<GridRows, GridCols>>, <<GridRows + 1, GridCols>>, <<GridRows, GridCols + 1>> }

\* the Small / Medium buttons of the settings panel, scaled to the model
SizeButtons == { <<GridRows, GridCols + 1>>, <<GridRows + 1, GridCols + 1>> }

\* grids Math.random() > 0.75 ? 1 : 0 may produce: a checkerboard, all alive
RandomGrids(rows, cols) ==
  { [i \in 0..(rows - 1) |-> [k \in 0..(cols - 1) |-> (i + k) % 2]],
    [i \in 0..(rows - 1) |-> [k \in 0..(cols - 1) |-> 1]] }

\* frame j of a history the program has filled before the model starts:
\* one live cell, its place telling the frames apart
InitFrame(j) ==
  [i \in 0..(GridRows - 1) |-> [k \in 0..(GridCols - 1) |->
      IF i * GridCols + k = j % (GridRows * GridCols) THEN 1 ELSE 0]]

InitHistories ==
  { << >>, [j \in 1..(HistoryLimit - 1) |-> InitFrame(j)] }

(***************************************************************************)
(* State.                                                                  *)
(***************************************************************************)
VARIABLES
  \* 2D component (GameOfLife.tsx)
  numRows, numCols,      \* useState, lines 121-122
  grid,                  \* gridRef.current, line 125
  running,               \* line 136
  generation,            \* line 137
  selectedRule,          \* line 140
  interactionMode,       \* line 146
  selectedStamp,         \* line 147
  isMouseDown,           \* line 148
  history,               \* historyRef.current, line 151
  historyLength,         \* line 152
  playbackIndex,         \* line 153
  crashed,               \* a render threw: React unmounts the component
  \* 3D component (GameOfLife3D.tsx)
  grid3,                 \* useState(generateRandomGrid), line 397
  running3,              \* line 399
  selectedRule3,         \* line 403
  timers,                \* the pending setTimeout(runSimulation) callbacks
  \* the arrays of the 2D component as objects: heap[id] is the lattice held
  \* by the array object id, gridId the object gridRef.current refers to,
  \* historyIds the objects historyRef.current holds, oldest first
  heap, gridId, historyIds,
  \* bookkeeping of the model: the last two handlers and the state before
  \* each, the array runStep read from as the step left it, the number of
  \* handlers run and how many the specification lets run; lastReturn is what
  \* the last handler returned to its caller
  lastOp, lastArg, lastReturn, pre, prevOp, pre2, lastSource, ops, budget,
  \* the call of the sound engine the last handler made
  sound

vars2D == << numRows, numCols, grid, running, generation, selectedRule,
             interactionMode, selectedStamp, isMouseDown, history,
             historyLength, playbackIndex, crashed >>

vars3D == << grid3, running3, selectedRule3, timers >>

log == << lastOp, lastArg, lastReturn, pre, prevOp, pre2, lastSource, ops,
         budget, sound >>

refs == << heap, gridId, historyIds >>

vars == << vars2D, vars3D, refs, log >>

\* what a handler without a return statement with a value hands back
VoidReturn == "undefined"

\* the state a handler starts in
Snap ==
  [ grid |-> grid, history |-> history, playbackIndex |-> playbackIndex,
    generation |-> generation, numRows |-> numRows, numCols |-> numCols,
    running |-> running, rule |-> selectedRule,
    historyLength |-> historyLength ]

NoSnap ==
  [ grid |-> << >>, history |-> << >>, playbackIndex |-> Null,
    generation |-> 0, numRows |-> 0, numCols |-> 0, running |-> FALSE,
    rule |-> RULE_SETS[1], historyLength |-> 0 ]

Record(op, arg) ==
  /\ lastOp' = op
  /\ lastArg' = arg
  /\ lastReturn' = VoidReturn
  /\ pre' = Snap
  /\ prevOp' = lastOp
  /\ pre2' = pre
  /\ lastSource' = IF op = "step" /\ Rows(grid) > 0
                     THEN StepBuffers(grid, selectedRule).g ELSE << >>
  /\ sound' = IF op = "step" /\ Rows(grid) > 0
                THEN SoundCall(StepBuffers(grid, selectedRule)) ELSE NoSound
  /\ ops' = ops + 1
  /\ UNCHANGED << vars3D, refs, budget >>

Init2D(h) ==
  /\ numRows = GridRows
  /\ numCols = GridCols
  /\ grid = generateEmptyGrid(GridRows, GridCols)
  /\ running = FALSE
  /\ generation = 0
  /\ selectedRule = RULE_SETS[1]
  /\ interactionMode = "draw"
  /\ selectedStamp = "Glider"
  /\ isMouseDown = FALSE
  /\ history = h
  /\ historyLength = Len(h)
  /\ playbackIndex = Null
  /\ crashed = FALSE

\* no array objects are tracked
IdleRefs ==
  /\ heap = << >>
  /\ gridId = 0
  /\ historyIds = << >>

InitLog(n) ==
  /\ IdleRefs
  /\ lastOp = "init"
  /\ lastArg = 0
  /\ lastReturn = VoidReturn
  /\ pre = NoSnap
  /\ prevOp = "init"
  /\ pre2 = NoSnap
  /\ lastSource = << >>
  /\ sound = NoSound
  /\ ops = 0
  /\ budget = n

(***************************************************************************)
(* Handlers of the 2D component.                                           *)
(***************************************************************************)
Max(a, b) == IF a >= b THEN a ELSE b

Min(a, b) == IF a <= b THEN a ELSE b

Enabled2D == ~crashed /\ ops < budget

\* runStep, lines 306-369
RunStep ==
  IF Rows(grid) = 0
    THEN UNCHANGED << grid, history, historyLength, playbackIndex, generation >>
    ELSE /\ history' = AddToHistory(history, playbackIndex, grid)
         /\ historyLength' = Len(history')
         /\ playbackIndex' = Null
         /\ grid' = StepBuffers(grid, selectedRule).newGrid
         /\ generation' = generation + 1

\* a frame or tick that steps whatever the running flag holds
FrameRunsAlways(r) == TRUE

\* if (!runningRef.current) return, at the head of animate (line 374) and of
\* runSimulation (3D, line 641)
FrameRuns(r) == r

\* animate, lines 373-384: a frame of the running loop that is due
Animate ==
  /\ Enabled2D
  /\ FrameRuns(running)
  /\ RunStep
  /\ UNCHANGED << numRows, numCols, running, selectedRule, interactionMode,
                  selectedStamp, isMouseDown, crashed >>
  /\ Record("step", "frame")

\* handleNextStep, lines 411-414 (the STEP button is disabled while running)
HandleNextStep ==
  /\ Enabled2D
  /\ ~running
  /\ running' = FALSE
  /\ RunStep
  /\ UNCHANGED << numRows, numCols, selectedRule, interactionMode,
                  selectedStamp, isMouseDown, crashed >>
  /\ Record("step", "button")

\* handleStartStop, lines 407-409
HandleStartStop ==
  /\ Enabled2D
  /\ running' = ~running
  /\ UNCHANGED << numRows, numCols, grid, generation, selectedRule,
                  interactionMode, selectedStamp, isMouseDown, history,
                  historyLength, playbackIndex, crashed >>
  /\ Record("startStop", 0)

\* setRunning(false), line 417, ahead of the test for an empty buffer
UndoRunningAfterTest(r, h) == IF Len(h) = 0 THEN r ELSE FALSE

UndoRunning(r, h) == FALSE

\* handleUndo, lines 416-428
Undo ==
  /\ running' = UndoRunning(running, history)
  /\ IF Len(history) = 0
       THEN UNCHANGED << grid, history, historyLength, playbackIndex, generation >>
       ELSE /\ grid' = UndoFrame(history)
            /\ history' = UndoRest(history)
            /\ generation' = Max(0, generation - 1)
            /\ historyLength' = Len(history')
            /\ playbackIndex' = Null
  /\ UNCHANGED << numRows, numCols, selectedRule, interactionMode,
                  selectedStamp, isMouseDown, crashed >>
  /\ Record("undo", 0)

\* the UNDO button, line 711 (disabled while running or with historyLength 0)
HandleUndo ==
  /\ Enabled2D
  /\ ~running /\ historyLength # 0
  /\ Undo

\* the values the timeline slider (lines 686-702, min 0, max historyLength)
\* is moved to: the oldest frame, the newest frame, the end of the track
ScrubInputs ==
  { 0, historyLength - 1, historyLength } \cap (0..historyLength)

\* the preview index after handleScrub(index) found no frame: return, line 431
ScrubMissResumes(p, index) == Null

ScrubMiss(p, index) == p

\* handleScrub, lines 430-443
Scrub(index) ==
  /\ IF ~HasFrame(history, index)
       THEN /\ playbackIndex' = ScrubMiss(playbackIndex, index)
            /\ UNCHANGED << grid, history, generation >>
       ELSE /\ playbackIndex' = index
            /\ grid' = ScrubGrid(history, index)
            /\ history' = ScrubHistory(history, index)
            /\ generation' = ScrubGeneration(generation, history, index)
  /\ UNCHANGED << numRows, numCols, running, selectedRule, interactionMode,
                  selectedStamp, isMouseDown, historyLength, crashed >>
  /\ Record("scrub", index)

\* the timeline slider, lines 686-702 (shown when paused with history)
HandleScrub(index) ==
  /\ Enabled2D
  /\ ~running /\ historyLength > 0
  /\ Scrub(index)

\* handleRandomize, lines 445-454
HandleRandomize(newGrid) ==
  /\ Enabled2D
  /\ history' = AddToHistory(history, playbackIndex, grid)
  /\ historyLength' = Len(history')
  /\ playbackIndex' = Null
  /\ grid' = newGrid
  /\ generation' = 0
  /\ UNCHANGED << numRows, numCols, running, selectedRule, interactionMode,
                  selectedStamp, isMouseDown, crashed >>
  /\ Record("randomize", 0)

\* handleClear, lines 456-462
HandleClear ==
  /\ Enabled2D
  /\ history' = AddToHistory(history, playbackIndex, grid)
  /\ historyLength' = Len(history')
  /\ playbackIndex' = Null
  /\ grid' = generateEmptyGrid(numRows, numCols)
  /\ generation' = 0
  /\ running' = FALSE
  /\ UNCHANGED << numRows, numCols, selectedRule, interactionMode,
                  selectedStamp, isMouseDown, crashed >>
  /\ Record("clear", 0)

\* handlePatternLoad, lines 464-483 (the select offers the keys of PATTERNS)
HandlePatternLoad(patternName) ==
  /\ Enabled2D
  /\ running' = FALSE
  /\ history' = AddToHistory(history, playbackIndex, grid)
  /\ historyLength' = Len(history')
  /\ playbackIndex' = Null
  /\ IF Len(PATTERNS[patternName]) = 0
       THEN UNCHANGED << grid, generation >>
       ELSE /\ grid' = Stamp(generateEmptyGrid(numRows, numCols),
                             PATTERNS[patternName],
                             numRows \div 2, numCols \div 2, numRows, numCols)
            /\ generation' = 0
  /\ UNCHANGED << numRows, numCols, selectedRule, interactionMode,
                  selectedStamp, isMouseDown, crashed >>
  /\ Record("patternLoad", 0)

\* handleSizeChange, lines 485-494
HandleSizeChange(r, c) ==
  /\ Enabled2D
  /\ running' = FALSE
  /\ history' = << >>
  /\ historyLength' = 0
  /\ playbackIndex' = Null
  /\ numRows' = r
  /\ numCols' = c
  /\ grid' = generateEmptyGrid(r, c)
  /\ generation' = 0
  /\ UNCHANGED << selectedRule, interactionMode, selectedStamp, isMouseDown,
                  crashed >>
  /\ Record("sizeChange", << r, c >>)

\* the grid handleResize builds inside the setNumRows updater, lines 510-518
ResizedGrid(oldGrid, prevRows, rows, cols) ==
  [i \in 0..(rows - 1) |-> [j \in 0..(cols - 1) |->
      IF i < Min(prevRows, rows) /\ j < Min(Cols(oldGrid), cols)
        THEN Cell(oldGrid, i, j) ELSE 0]]

\* oldGrid[i][j] with oldGrid[i] undefined: a TypeError inside the updater
ResizeThrows(oldGrid, prevRows, rows, cols) ==
  /\ Min(Cols(oldGrid), cols) > 0
  /\ \E i \in 0..(Min(prevRows, rows) - 1) : i \notin DOMAIN oldGrid

\* handleResize, lines 503-526 (window resize)
HandleResize(rows, cols) ==
  /\ Enabled2D
  /\ IF numRows = rows
       THEN /\ numCols' = cols
            /\ UNCHANGED << numRows, grid, crashed >>
       ELSE IF ResizeThrows(grid, numRows, rows, cols)
         THEN /\ crashed' = TRUE
              /\ UNCHANGED << numRows, numCols, grid >>
         ELSE /\ grid' = ResizedGrid(grid, numRows, rows, cols)
              /\ numRows' = rows
              /\ numCols' = cols
              /\ UNCHANGED crashed
  /\ UNCHANGED << running, generation, selectedRule, interactionMode,
                  selectedStamp, isMouseDown, history, historyLength,
                  playbackIndex >>
  /\ Record("resize", << rows, cols >>)

\* a frame pushed by every call of handleCellInteract
PushesFrameAlways(type) == TRUE

\* if (type === 'down') addToHistory(gridRef.current), lines 544-546
PushesFrame(type) == type = "down"

\* handleCellInteract, lines 537-575, past the isMouseDown test
CellInteract(r, c, type) ==
  LET prev    == grid
      mode    == interactionMode
      val     == IF mode = "draw" THEN 1 ELSE 0
      edits   == /\ ~(type = "enter" /\ mode = "stamp")
                 /\ r \in DOMAIN prev
                 /\ ~(Cell(prev, r, c) = val /\ mode # "stamp")
      newGrid == IF mode = "stamp" /\ type = "down"
                   THEN IF Cols(prev) = 0 THEN prev
                        ELSE Stamp(prev, PATTERNS[selectedStamp], r, c,
                                   Rows(prev), Cols(prev))
                   ELSE SetCell(prev, r, c, val)
  IN  /\ IF PushesFrame(type)
           THEN /\ history' = AddToHistory(history, playbackIndex, grid)
                /\ historyLength' = Len(history')
                /\ playbackIndex' = Null
           ELSE UNCHANGED << history, historyLength, playbackIndex >>
      /\ grid' = IF edits THEN newGrid ELSE prev

\* handleInteractionStart, lines 577-604, on a cell of the canvas
PointerDown(r, c) ==
  /\ Enabled2D
  /\ isMouseDown' = TRUE
  /\ CellInteract(r, c, "down")
  /\ UNCHANGED << numRows, numCols, running, generation, selectedRule,
                  interactionMode, selectedStamp, crashed >>
  /\ Record("pointerDown", << r, c >>)

\* handleInteractionMove, lines 606-634, on a cell of the canvas; with the
\* button up handleCellInteract returns at line 538
PointerMove(r, c) ==
  /\ Enabled2D
  /\ IF isMouseDown
       THEN CellInteract(r, c, "enter")
       ELSE UNCHANGED << grid, history, historyLength, playbackIndex >>
  /\ UNCHANGED << numRows, numCols, running, generation, selectedRule,
                  interactionMode, selectedStamp, isMouseDown, crashed >>
  /\ Record("pointerMove", << r, c >>)

\* handleWindowMouseUp, line 198
MouseUp ==
  /\ Enabled2D
  /\ isMouseDown
  /\ isMouseDown' = FALSE
  /\ UNCHANGED << numRows, numCols, grid, running, generation, selectedRule,
                  interactionMode, selectedStamp, history, historyLength,
                  playbackIndex, crashed >>
  /\ Record("mouseUp", 0)

\* the DRAW / ERASE / STAMP buttons, lines 719-736
SetInteractionMode(mode) ==
  /\ Enabled2D
  /\ interactionMode' = mode
  /\ UNCHANGED << numRows, numCols, grid, running, generation, selectedRule,
                  selectedStamp, isMouseDown, history, historyLength,
                  playbackIndex, crashed >>
  /\ Record("setMode", 0)

\* the stamp select, lines 738-744
SetSelectedStamp(name) ==
  /\ Enabled2D
  /\ interactionMode = "stamp"
  /\ selectedStamp' = name
  /\ UNCHANGED << numRows, numCols, grid, running, generation, selectedRule,
                  interactionMode, isMouseDown, history, historyLength,
                  playbackIndex, crashed >>
  /\ Record("setStamp", 0)

\* the rule select, lines 793-799
SetSelectedRule(n) ==
  /\ Enabled2D
  /\ selectedRule' = RULE_SETS[n]
  /\ UNCHANGED << numRows, numCols, grid, running, generation,
                  interactionMode, selectedStamp, isMouseDown, history,
                  historyLength, playbackIndex, crashed >>
  /\ Record("setRule", 0)

\* the 3D component is not mounted
Idle3D ==
  /\ grid3 = << >>
  /\ running3 = FALSE
  /\ selectedRule3 = RULE_SETS_3D[1]
  /\ timers = 0

Init == (\E h \in InitHistories : Init2D(h)) /\ Idle3D /\ InitLog(MaxOps)

\* the patterns chosen in the two select boxes
PatternInputs == {"Glider", "Pulsar"}

\* the cells (r, c) a pointer event lands on (lines 598-602): the corners
PointerCells ==
  { <<0, 0>>, <<0, numCols - 1>>, <<numRows - 1, 0>>, <<numRows - 1, numCols - 1>> }

Next ==
  \/ Animate
  \/ HandleNextStep
  \/ HandleStartStop
  \/ HandleUndo
  \/ \E index \in ScrubInputs : HandleScrub(index)
  \/ \E newGrid \in RandomGrids(numRows, numCols) : HandleRandomize(newGrid)
  \/ HandleClear
  \/ \E patternName \in PatternInputs : HandlePatternLoad(patternName)
  \/ \E size \in SizeButtons : HandleSizeChange(size[1], size[2])
  \/ \E size \in WindowSizes : HandleResize(size[1], size[2])
  \/ \E p \in PointerCells : PointerDown(p[1], p[2])
  \/ \E p \in PointerCells : isMouseDown /\ PointerMove(p[1], p[2])
  \/ MouseUp
  \/ \E mode \in {"draw", "erase", "stamp"} : SetInteractionMode(mode)
  \/ \E name \in PatternInputs : SetSelectedStamp(name)
  \/ \E n \in DOMAIN RULE_SETS : SetSelectedRule(n)

Spec == Init /\ [][Next]_vars

(***************************************************************************)
(* Handlers of the 3D component.                                           *)
(***************************************************************************)
\* outcomes of Math.random() > 0.75 over the cells: all alive, alternating,
\* a 2 x 2 block in the middle of the face z = 0
RandomBits3D ==
  { [idx \in 0..(TOTAL_CELLS - 1) |-> 1],
    [idx \in 0..(TOTAL_CELLS - 1) |->
       LET p == getCoords(idx, WIDTH, HEIGHT) IN (p.x + p.y + p.z) % 2],
    [idx \in 0..(TOTAL_CELLS - 1) |->
       LET p == getCoords(idx, WIDTH, HEIGHT)
       IN  IF p.x \in {1, 2} /\ p.y \in {1, 2} /\ p.z = 0 THEN 1 ELSE 0] }

\* cells getGridFromPoint (lines 113-124) hands to onToggleCell: a corner, a
\* face cell, an interior cell, cells of two other faces
ToggleInputs ==
  { <<0, 0, 0>>, <<1, 1, 0>>, <<1, 1, 1>>, <<WIDTH - 1, 1, 1>>,
    <<1, HEIGHT - 1, DEPTH - 1>> }

Snap3D ==
  [ grid |-> grid3, running |-> running3, rule |-> selectedRule3,
    timers |-> timers ]

Record3D(op, arg) ==
  /\ lastOp' = op
  /\ lastArg' = arg
  /\ lastReturn' = VoidReturn
  /\ pre' = Snap3D
  /\ prevOp' = lastOp
  /\ pre2' = pre
  /\ lastSource' = << >>
  /\ sound' = NoSound
  /\ ops' = ops + 1
  /\ UNCHANGED << vars2D, refs, budget >>

Enabled3D == ops < budget

\* runStep from the STEP button, line 745 (disabled while running)
StepButton3D ==
  /\ Enabled3D
  /\ ~running3
  /\ grid3' = NextGrid3D(grid3, selectedRule3)
  /\ UNCHANGED << running3, selectedRule3, timers >>
  /\ Record3D("step", "button")

\* runSimulation, lines 639-647, called by a timer that is due: it steps
\* and sets the next timer, or returns if the running flag is false
RunSimulation ==
  /\ Enabled3D
  /\ timers > 0
  /\ IF FrameRuns(running3)
       THEN /\ grid3' = NextGrid3D(grid3, selectedRule3)
            /\ UNCHANGED << running3, selectedRule3, timers >>
            /\ Record3D("step", "tick")
       ELSE /\ timers' = timers - 1
            /\ UNCHANGED << grid3, running3, selectedRule3 >>
            /\ Record3D("tick", 0)

\* handleStartStop, line 661, and the running effect, lines 651-655, which
\* calls runSimulation() when running has become true: a step and a timer
HandleStartStop3D ==
  /\ Enabled3D
  /\ running3' = ~running3
  /\ IF running3
       THEN UNCHANGED << grid3, timers >>
       ELSE /\ grid3' = NextGrid3D(grid3, selectedRule3)
            /\ timers' = timers + 1
  /\ UNCHANGED selectedRule3
  /\ Record3D("startStop", 0)

\* handleReset, lines 663-669
HandleReset(bits) ==
  /\ Enabled3D
  /\ running3' = FALSE
  /\ grid3' = generateRandomGrid(bits)
  /\ UNCHANGED << selectedRule3, timers >>
  /\ Record3D("reset", 0)

\* handleClear, lines 671-677
HandleClear3D ==
  /\ Enabled3D
  /\ running3' = FALSE
  /\ grid3' = generateEmptyGrid3D
  /\ UNCHANGED << selectedRule3, timers >>
  /\ Record3D("clear", 0)

\* handleToggleCell, lines 681-689
HandleToggleCell(x, y, z) ==
  /\ Enabled3D
  /\ grid3' = ToggleCell(grid3, x, y, z)
  /\ UNCHANGED << running3, selectedRule3, timers >>
  /\ Record3D("toggle", << x, y, z >>)

\* the rule select, lines 779-784
SetSelectedRule3D(n) ==
  /\ Enabled3D
  /\ selectedRule3' = RULE_SETS_3D[n]
  /\ UNCHANGED << grid3, running3, timers >>
  /\ Record3D("setRule", 0)

\* the 2D component is not mounted
Idle2D == Init2D(<< >>)

Init3D(bits) ==
  /\ grid3 = generateRandomGrid(bits)
  /\ running3 = FALSE
  /\ selectedRule3 = RULE_SETS_3D[1]
  /\ timers = 0

Init3 == (\E bits \in RandomBits3D : Init3D(bits)) /\ Idle2D /\ InitLog(MaxOps3D)

Next3 ==
  \/ StepButton3D
  \/ RunSimulation
  \/ HandleStartStop3D
  \/ \E bits \in RandomBits3D : HandleReset(bits)
  \/ HandleClear3D
  \/ \E p \in ToggleInputs : HandleToggleCell(p[1], p[2], p[3])
  \/ \E n \in DOMAIN RULE_SETS_3D : SetSelectedRule3D(n)

\* the 3D component under any sequence of its handlers
Spec3D == Init3 /\ [][Next3]_vars

\* the 3D component stepped MaxGenerations times from each random grid; the
\* Conway rule keeps the 2 x 2 block alive
Init3Age ==
  (\E bits \in RandomBits3D : Init3D(bits)) /\ Idle2D /\ InitLog(MaxGenerations)

Spec3DAge == Init3Age /\ [][StepButton3D]_vars

(***************************************************************************)
(* Further specifications of the 2D component.                             *)
(***************************************************************************)
\* lattices of side StepSide: the cells alive are any of the first
\* StepLiveCells cells in row-major order, their ages run over 1..StepMaxAge
StepLattices ==
  { [i \in 0..(StepSide - 1) |-> [k \in 0..(StepSide - 1) |->
       IF (i * StepSide + k) \in alive
         THEN 1 + ((i * StepSide + k + a) % StepMaxAge) ELSE 0]] :
    alive \in SUBSET (0..(StepLiveCells - 1)), a \in 0..(StepMaxAge - 1) }

\* one runStep applied to each lattice of StepLattices under each rule
InitStep ==
  /\ \E g \in StepLattices, n \in DOMAIN RULE_SETS :
       /\ grid = g
       /\ selectedRule = RULE_SETS[n]
  /\ numRows = StepSide
  /\ numCols = StepSide
  /\ running = FALSE
  /\ generation = 0
  /\ interactionMode = "draw"
  /\ selectedStamp = "Glider"
  /\ isMouseDown = FALSE
  /\ history = << >>
  /\ historyLength = 0
  /\ playbackIndex = Null
  /\ crashed = FALSE
  /\ Idle3D
  /\ InitLog(1)

SpecStep == InitStep /\ [][HandleNextStep]_vars

\* the state after "Life without Death" is selected and one cell is drawn,
\* then MaxGenerations steps
InitAge ==
  /\ numRows = GridRows
  /\ numCols = GridCols
  /\ grid = SetCell(generateEmptyGrid(GridRows, GridCols), 0, 0, 1)
  /\ running = FALSE
  /\ generation = 0
  /\ selectedRule = RULE_SETS[5]
  /\ interactionMode = "draw"
  /\ selectedStamp = "Glider"
  /\ isMouseDown = FALSE
  /\ history = << generateEmptyGrid(GridRows, GridCols) >>
  /\ historyLength = 1
  /\ playbackIndex = Null
  /\ crashed = FALSE
  /\ Idle3D
  /\ InitLog(MaxGenerations)

SpecAge == InitAge /\ [][HandleNextStep]_vars

(***************************************************************************)
(* Properties.                                                             *)
(***************************************************************************)
MooreOffsets == ({-1, 0, 1} \X {-1, 0, 1}) \ { <<0, 0>> }

\* the live cells of lattice L among the 8 Moore neighbours of (i, k), with
\* coordinates taken modulo (rows, cols)
LiveNeighbors(L, i, k) ==
  Cardinality({ d \in MooreOffsets :
                  L[(i + d[1]) % Rows(L)][(k + d[2]) % Cols(L)] > 0 })

CellsOf(L) == (0..(Rows(L) - 1)) \X (0..(Cols(L) - 1))

\* C1: runStep yields the synchronous next generation: each cell's count is
\* the number of live cells among its 8 wrapped Moore neighbours in the
\* previous generation; a live cell stays alive iff the count is in survive
\* and else gets age 0; a dead cell gets age 1 iff the count is in born and
\* else stays 0; the previous-generation lattice is left as it was.
C1_StepIsSynchronous ==
  lastOp = "step" =>
    /\ Rows(grid) = Rows(pre.grid) /\ Cols(grid) = Cols(pre.grid)
    /\ \A c \in CellsOf(pre.grid) :
         LET was == pre.grid[c[1]][c[2]]
             now == grid[c[1]][c[2]]
             n   == LiveNeighbors(pre.grid, c[1], c[2])
         IN  /\ was > 0 /\ n \in pre.rule.survive => now > 0
             /\ was > 0 /\ n \notin pre.rule.survive => now = 0
             /\ was = 0 /\ n \in pre.rule.born => now = 1
             /\ was = 0 /\ n \notin pre.rule.born => now = 0
    /\ lastSource = pre.grid

\* a step in which a cell was born, one died and one survived
C1_Witness ==
  /\ lastOp = "step"
  /\ \E c \in CellsOf(pre.grid) : pre.grid[c[1]][c[2]] = 0 /\ grid[c[1]][c[2]] = 1
  /\ \E c \in CellsOf(pre.grid) : pre.grid[c[1]][c[2]] > 0 /\ grid[c[1]][c[2]] = 0
  /\ \E c \in CellsOf(pre.grid) : pre.grid[c[1]][c[2]] > 0 /\ grid[c[1]][c[2]] > 0

C3_HistoryBound == Len(history) <= HistoryLimit

\* the handlers that call addToHistory
PushOps == {"step", "randomize", "clear", "patternLoad", "pointerDown"}

\* a push onto a full buffer
C3_Witness ==
  /\ lastOp \in PushOps
  /\ Len(pre.history) = HistoryLimit
  /\ pre.playbackIndex = Null
  /\ Len(history) = HistoryLimit

\* C4 as stated: right after scrub(index) with a valid index the frames
\* stored after index are gone from the buffer and the current lattice is
\* the frame that was stored at index.
C4_ScrubIsDestructive ==
  (lastOp = "scrub" /\ HasFrame(pre.history, lastArg)) =>
    /\ Len(history) <= lastArg + 1
    /\ grid = pre.history[lastArg + 1]

\* C4 amended: right after scrub(index) with a valid index the current
\* lattice is the frame stored at index, the preview index is index and the
\* buffer is unchanged; the next push truncates the buffer to its first index
\* frames before it records the lattice.
C4_ScrubPreviewsPushDiscards ==
  /\ (lastOp = "scrub" /\ HasFrame(pre.history, lastArg)) =>
       /\ grid = pre.history[lastArg + 1]
       /\ playbackIndex = lastArg
       /\ history = pre.history
  /\ (lastOp \in PushOps /\ pre.playbackIndex # Null) =>
       /\ history = Append(SubSeq(pre.history, 1, pre.playbackIndex), pre.grid)
       /\ playbackIndex = Null

\* a push that follows a scrub to a frame with frames stored after it
C4_Witness ==
  /\ lastOp \in PushOps /\ prevOp = "scrub"
  /\ pre.playbackIndex # Null
  /\ pre.playbackIndex + 1 < Len(pre.history)
  /\ Len(history) = pre.playbackIndex + 1

\* C5: handleScrub leaves the contents and the length of the history buffer
\* as they were, so a scrub that follows a scrub shows the frame of the
\* buffer at its index, also for an index after the one previewed.
C5_ScrubKeepsHistory ==
  /\ lastOp = "scrub" =>
       /\ history = pre.history
       /\ historyLength = pre.historyLength
  /\ (lastOp = "scrub" /\ prevOp = "scrub" /\ HasFrame(pre2.history, lastArg)) =>
       grid = pre2.history[lastArg + 1]

\* a scrub to a frame stored after the frame the scrub before it previewed
C5_Witness ==
  /\ lastOp = "scrub" /\ prevOp = "scrub"
  /\ pre.playbackIndex # Null
  /\ lastArg > pre.playbackIndex
  /\ playbackIndex = lastArg
  /\ grid = pre2.history[lastArg + 1]

\* C6: after scrub(index) issued with no preview active, the lattice that was
\* current before the scrub is still there to restore: it is the current
\* lattice or a frame of the buffer (which a scrub or undo would show).
C6_ScrubKeepsLiveLattice ==
  (lastOp = "scrub" /\ HasFrame(pre.history, lastArg) /\ pre.playbackIndex = Null) =>
    \/ grid = pre.grid
    \/ \E j \in 1..Len(history) : history[j] = pre.grid

(***************************************************************************)
(* Properties of the 3D component.                                         *)
(***************************************************************************)
Coords3D == (0..(WIDTH - 1)) \X (0..(HEIGHT - 1)) \X (0..(DEPTH - 1))

Interior(p) ==
  /\ p[1] > 0 /\ p[1] < WIDTH - 1
  /\ p[2] > 0 /\ p[2] < HEIGHT - 1
  /\ p[3] > 0 /\ p[3] < DEPTH - 1

At3D(g, p) == g[p[1] + p[2] * WIDTH + p[3] * WIDTH * HEIGHT]

\* the live cells of g among the Moore neighbours of p that lie in the box
BoxNeighbors(g, p) ==
  Cardinality({ q \in Coords3D :
                  /\ q # p
                  /\ q[1] - p[1] \in {-1, 0, 1}
                  /\ q[2] - p[2] \in {-1, 0, 1}
                  /\ q[3] - p[3] \in {-1, 0, 1}
                  /\ At3D(g, q) > 0 })

\* C7: every interior coordinate of the 3D lattice has age 0.
C7_ShellContainment ==
  \A p \in Coords3D : Interior(p) => At3D(grid3, p) = 0

\* a step from a lattice in which an interior cell had a number of live
\* neighbours that the rule gives birth on
C7_Witness ==
  /\ lastOp = "step"
  /\ \E p \in Coords3D : Interior(p) /\ BoxNeighbors(pre.grid, p) \in pre.rule.born

\* C8: the 3D step counts, for each shell cell, the live cells among its 26
\* Moore neighbours inside the box, nothing wrapped; the cell is alive after
\* the step iff it was alive and the count is in survive, or it was dead and
\* the count is in born.
C8_BoundedNeighbors ==
  lastOp = "step" =>
    \A p \in Coords3D :
      ~Interior(p) =>
        LET n == BoxNeighbors(pre.grid, p)
        IN  At3D(grid3, p) > 0 <=>
              \/ At3D(pre.grid, p) > 0 /\ n \in pre.rule.survive
              \/ At3D(pre.grid, p) = 0 /\ n \in pre.rule.born

\* a step from a lattice with a live cell on the face x = W-1 straight
\* across from a cell of the face x = 0 whose fate a wrapped count changes
C8_Witness ==
  /\ lastOp = "step"
  /\ \E y \in 0..(HEIGHT - 1), z \in 0..(DEPTH - 1) :
       LET p == <<0, y, z>>
           n == BoxNeighbors(pre.grid, p)
           across == Cardinality({ q \in Coords3D :
                        /\ q[1] = WIDTH - 1
                        /\ q[2] - y \in {-1, 0, 1}
                        /\ q[3] - z \in {-1, 0, 1}
                        /\ At3D(pre.grid, q) > 0 })
       IN  /\ across > 0
           /\ At3D(pre.grid, p) = 0
           /\ n \in pre.rule.born
           /\ (n + across) \notin pre.rule.born
           /\ At3D(grid3, p) = 1

(***************************************************************************)
(* Ages.                                                                   *)
(***************************************************************************)
\* C9: no cell of the 2D lattice has an age above 255, and the cell that
\* stayed alive for 300 steps has age 255.
C9_AgeSaturates2D ==
  /\ \A c \in CellsOf(grid) : grid[c[1]][c[2]] <= 255
  /\ ops = 300 => grid[0][0] = 255

\* C10: in the 3D step a surviving cell gets min(age + 1, 255), a dying cell
\* 0 and a born cell 1; no cell is above 255 and no survivor's age drops.
C10_AgeSaturates3D ==
  /\ \A p \in Coords3D : At3D(grid3, p) <= 255
  /\ lastOp = "step" =>
       \A p \in Coords3D :
         ~Interior(p) =>
           LET was == At3D(pre.grid, p)
               n   == BoxNeighbors(pre.grid, p)
           IN  At3D(grid3, p) =
                 IF was > 0
                   THEN IF n \in pre.rule.survive
                          THEN (IF was + 1 <= 255 THEN was + 1 ELSE 255)
                          ELSE 0
                   ELSE IF n \in pre.rule.born THEN 1 ELSE 0

\* a step in which a surviving cell of age 255 keeps age 255
C10_Witness ==
  /\ lastOp = "step"
  /\ \E p \in Coords3D : At3D(pre.grid, p) = 255 /\ At3D(grid3, p) = 255

(***************************************************************************)
(* Dimensions and history.                                                 *)
(***************************************************************************)
\* the handlers that set numRows / numCols
ResizeOps == {"sizeChange", "resize"}

\* C11: a grid-size button or a window resize that changes the lattice
\* dimensions leaves the history buffer empty.
C11_ResizeClearsHistory ==
  (lastOp \in ResizeOps /\ (numRows # pre.numRows \/ numCols # pre.numCols)) =>
    /\ history = << >>
    /\ historyLength = 0

\* g has rows rows of cols cells each
HasDimensions(g, rows, cols) ==
  /\ DOMAIN g = 0..(rows - 1)
  /\ \A i \in DOMAIN g : DOMAIN g[i] = 0..(cols - 1)

\* C12: the current lattice and every frame of the history buffer have
\* numRows rows and numCols columns.
C12_DimensionsMatch ==
  /\ HasDimensions(grid, numRows, numCols)
  /\ \A j \in 1..Len(history) : HasDimensions(history[j], numRows, numCols)

\* C13: a push made while a preview index p is set leaves the preview index
\* none and the buffer holding the old frames 0..p-1 followed by a copy of
\* the lattice pushed; the frames from p on are gone.
C13_PushCollapsesPreview ==
  (lastOp \in PushOps /\ pre.playbackIndex # Null) =>
    LET p == pre.playbackIndex
    IN  /\ playbackIndex = Null
        /\ Len(history) = p + 1
        /\ historyLength = p + 1
        /\ \A j \in 1..p : history[j] = pre.history[j]
        /\ history[p + 1] = pre.grid

\* a push during a preview of a frame that has frames before it
C13_Witness ==
  /\ lastOp \in PushOps
  /\ pre.playbackIndex # Null
  /\ pre.playbackIndex > 0
  /\ pre.playbackIndex + 1 <= Len(pre.history)
  /\ playbackIndex = Null
  /\ Len(history) = pre.playbackIndex + 1

\* C14: a push onto a buffer of 100 frames drops the oldest frame and appends
\* the new one, the other 99 keeping their order; after 150 pushes (the
\* frame pushed by the draw, then 149 steps, the frame pushed by step k
\* having age k at cell (0, 0)) the buffer holds the last 100 frames pushed,
\* in order, and none of the first 50.
C14_FifoEviction ==
  /\ (lastOp \in PushOps /\ Len(pre.history) = HistoryLimit
        /\ pre.playbackIndex = Null) =>
       history = Append(Tail(pre.history), pre.grid)
  /\ ops = 149 =>
       /\ Len(history) = 100
       /\ \A j \in 1..100 : history[j][0][0] = 49 + j

\* the buffer after the 150th push
C14_Witness ==
  /\ ops = 149
  /\ lastOp = "step"
  /\ Len(pre.history) = HistoryLimit
  /\ history[1][0][0] = 50
  /\ history[100][0][0] = 149

\* C15 as stated: undo on a non-empty history removes the most recent frame
\* only, makes it the current lattice and takes exactly 1 off the generation
\* counter.
C15_UndoPopsAndDecrements ==
  (lastOp = "undo" /\ Len(pre.history) > 0) =>
    /\ history = SubSeq(pre.history, 1, Len(pre.history) - 1)
    /\ historyLength = Len(pre.history) - 1
    /\ grid = pre.history[Len(pre.history)]
    /\ generation = pre.generation - 1

\* C15 amended: undo on a non-empty history removes the most recent frame
\* only, makes it the current lattice and takes 1 off the generation
\* counter, which stays 0 when it is 0.
C15_UndoPopsAndDecrementsToZero ==
  (lastOp = "undo" /\ Len(pre.history) > 0) =>
    /\ history = SubSeq(pre.history, 1, Len(pre.history) - 1)
    /\ historyLength = Len(pre.history) - 1
    /\ grid = pre.history[Len(pre.history)]
    /\ generation = (IF pre.generation >= 1 THEN pre.generation - 1 ELSE 0)

\* an undo with two frames or more and a counter above 0, the frame popped
\* differing from the one left on top
C15_Witness ==
  /\ lastOp = "undo"
  /\ Len(pre.history) >= 2
  /\ pre.generation >= 1
  /\ generation = pre.generation - 1
  /\ pre.history[Len(pre.history)] # pre.history[Len(pre.history) - 1]
  /\ grid = pre.history[Len(pre.history)]

\* C16 as stated: scrub(index) with a valid index takes the distance between
\* the history length before the scrub and index off the generation counter.
C16_ScrubRewindsGeneration ==
  (lastOp = "scrub" /\ HasFrame(pre.history, lastArg)) =>
    generation = pre.generation - (Len(pre.history) - lastArg)

\* C16 amended: scrub(index) with a valid index leaves the generation
\* counter as it was.
C16_ScrubKeepsGeneration ==
  (lastOp = "scrub" /\ HasFrame(pre.history, lastArg)) =>
    generation = pre.generation

\* a scrub to a frame, the counter being above 0
C16_Witness ==
  /\ lastOp = "scrub"
  /\ HasFrame(pre.history, lastArg)
  /\ pre.generation >= 1
  /\ playbackIndex = lastArg
  /\ generation >= 1

(***************************************************************************)
(* The handlers called directly, without the gating of the controls        *)
(* (a disabled UNDO button, a hidden slider, the slider's min and max).    *)
(***************************************************************************)
\* handleUndo() in any state
CallUndo == Enabled2D /\ Undo

\* indices handed to handleScrub: before the buffer, its first frame, its
\* end, past its end
CallScrubInputs == { -1, 0, historyLength, historyLength + 1 }

\* handleScrub(index) in any state
CallScrub(index) == Enabled2D /\ Scrub(index)

InitCalls == (\E h \in InitHistories : Init2D(h)) /\ Idle3D /\ InitLog(MaxCalls)

NextCalls ==
  \/ Next
  \/ CallUndo
  \/ \E index \in CallScrubInputs : CallScrub(index)

SpecCalls == InitCalls /\ [][NextCalls]_vars

C18_ScrubOutOfRangeIsNoOp ==
  (lastOp = "scrub" /\ (lastArg < 0 \/ lastArg >= Len(pre.history))) =>
    /\ grid = pre.grid
    /\ history = pre.history
    /\ historyLength = pre.historyLength
    /\ playbackIndex = pre.playbackIndex
    /\ generation = pre.generation

\* the slider moved to its maximum while a frame is previewed
C18_Witness ==
  /\ lastOp = "scrub" /\ prevOp = "scrub"
  /\ lastArg = Len(pre.history)
  /\ Len(pre.history) > 0
  /\ pre.playbackIndex # Null
  /\ playbackIndex = pre.playbackIndex

(***************************************************************************)
(* Coordinates.                                                            *)
(***************************************************************************)
\* (r, c) is not a cell of lattice g
OutOfLattice(g, r, c) == r \notin DOMAIN g \/ c \notin DOMAIN g[r]

\* the handlers that reach handleCellInteract
PointerOps == {"pointerDown", "pointerMove"}

\* v brought into lo..hi
Clamp(v, lo, hi) == IF v < lo THEN lo ELSE IF v > hi THEN hi ELSE v

\* C19: a draw / erase / stamp at a coordinate outside the lattice raises no
\* error, leaves the lattice's dimensions and the history as they were and
\* changes no cell other than the in-range cell nearest to the coordinate.
C19_OutOfRangeCoordinateIsSafe ==
  (lastOp \in PointerOps /\ Rows(pre.grid) > 0 /\ Cols(pre.grid) > 0
     /\ OutOfLattice(pre.grid, lastArg[1], lastArg[2])) =>
    /\ ~crashed
    /\ history = pre.history
    /\ DOMAIN grid = DOMAIN pre.grid
    /\ \A i \in DOMAIN pre.grid : DOMAIN grid[i] = DOMAIN pre.grid[i]
    /\ \A i \in DOMAIN pre.grid : \A k \in DOMAIN pre.grid[i] :
         (i # Clamp(lastArg[1], 0, Rows(pre.grid) - 1)
            \/ k # Clamp(lastArg[2], 0, Cols(pre.grid) - 1)) =>
           grid[i][k] = pre.grid[i][k]

\* C20: handleToggleCell at an in-range coordinate leaves the lattice as it
\* was when the coordinate is interior; at a shell coordinate that cell goes
\* from alive to 0 or from dead to 1 and every other cell is unchanged.
C20_ToggleChangesOneShellCell ==
  (lastOp = "toggle" /\ lastArg \in Coords3D) =>
    IF Interior(lastArg)
      THEN grid3 = pre.grid
      ELSE /\ At3D(grid3, lastArg) = (IF At3D(pre.grid, lastArg) > 0 THEN 0 ELSE 1)
           /\ \A q \in Coords3D :
                q # lastArg => At3D(grid3, q) = At3D(pre.grid, q)

\* a toggle of a shell cell of age 2 or more, which dies
C20_Witness ==
  /\ lastOp = "toggle"
  /\ lastArg \in Coords3D
  /\ ~Interior(lastArg)
  /\ At3D(pre.grid, lastArg) >= 2
  /\ At3D(grid3, lastArg) = 0

(***************************************************************************)
(* Stamping: one pointer down in stamp mode, for each built-in pattern,    *)
(* on each lattice of 1..StampSide rows and columns, at each anchor.       *)
(***************************************************************************)
\* lattices a stamp lands on: empty, every cell of age 2, ages 0, 1, 2 mixed
StampLattices(rows, cols) ==
  { [i \in 0..(rows - 1) |-> [k \in 0..(cols - 1) |-> 0]],
    [i \in 0..(rows - 1) |-> [k \in 0..(cols - 1) |-> 2]],
    [i \in 0..(rows - 1) |-> [k \in 0..(cols - 1) |-> (i + 2 * k) % 3]] }

InitStamp ==
  /\ \E rows \in 1..StampSide, cols \in 1..StampSide :
       /\ numRows = rows
       /\ numCols = cols
       /\ grid \in StampLattices(rows, cols)
  /\ selectedStamp \in PatternNames
  /\ interactionMode = "stamp"
  /\ running = FALSE
  /\ generation = 0
  /\ selectedRule = RULE_SETS[1]
  /\ isMouseDown = FALSE
  /\ history = << >>
  /\ historyLength = 0
  /\ playbackIndex = Null
  /\ crashed = FALSE
  /\ Idle3D
  /\ InitLog(1)

\* pointer down on any cell of the canvas
StampDown ==
  \E r \in 0..(numRows - 1), c \in 0..(numCols - 1) : PointerDown(r, c)

SpecStamp == InitStamp /\ [][StampDown]_vars

\* the cells ((r + dr) mod rows, (c + dc) mod cols) for (dr, dc) in pattern
Footprint(pattern, r, c, rows, cols) ==
  { << (r + pattern[n][1]) % rows, (c + pattern[n][2]) % cols >> :
      n \in DOMAIN pattern }

\* C21: a stamp of pattern P at an anchor (r, c) of the lattice sets exactly
\* the cells ((r + dr) mod rows, (c + dc) mod cols), (dr, dc) in P, to age 1
\* whatever their age was, and leaves every other cell and the lattice's
\* shape unchanged, also when P is larger than the lattice.
C21_StampSetsFootprintOnly ==
  ( /\ lastOp = "pointerDown"
    /\ interactionMode = "stamp"
    /\ ~OutOfLattice(pre.grid, lastArg[1], lastArg[2]) )
  => LET rows == Rows(pre.grid)
         cols == Cols(pre.grid)
         foot == Footprint(PATTERNS[selectedStamp], lastArg[1], lastArg[2],
                           rows, cols)
     IN  /\ DOMAIN grid = DOMAIN pre.grid
         /\ \A i \in DOMAIN grid :
              /\ DOMAIN grid[i] = DOMAIN pre.grid[i]
              /\ \A k \in DOMAIN grid[i] :
                   grid[i][k] = IF << i, k >> \in foot THEN 1
                                ELSE pre.grid[i][k]

\* a Pulsar stamped on a lattice smaller than it, over cells of age 2, some
\* of which keep their age
C21_Witness ==
  /\ lastOp = "pointerDown"
  /\ interactionMode = "stamp"
  /\ selectedStamp = "Pulsar"
  /\ Rows(pre.grid) = 4
  /\ Cols(pre.grid) = 4
  /\ lastArg = << 3, 2 >>
  /\ \A i \in 0..3, k \in 0..3 : pre.grid[i][k] = 2
  /\ \E i \in 0..3, k \in 0..3 : grid[i][k] = 1
  /\ \E i \in 0..3, k \in 0..3 : grid[i][k] = 2

(***************************************************************************)
(* Panel geometry (utils/gridGeometry.ts).  Lengths are integers in units  *)
(* of 1/200: a spacing of 0.5 is 100.  Spacings are multiples of 20, so    *)
(* that (width - 1) / 2 * spacing, 0.9 * spacing and 0.05 * spacing are    *)
(* whole numbers of units.                                                 *)
(***************************************************************************)
\* (v - offset) * spacing with offset = (dim - 1) / 2, lines 24 and 28-30
Centered(v, dim, spacing) == ((2 * v - (dim - 1)) * spacing) \div 2

\* +1 on both boundaries of an axis
NormalComponentOutward(v, dim) == IF v = 0 \/ v = dim - 1 THEN 1 ELSE 0

\* lines 35-42: -1 at coordinate 0, else +1 at coordinate dim - 1, else 0
NormalComponent(v, dim) == IF v = 0 THEN -1 ELSE IF v = dim - 1 THEN 1 ELSE 0

\* a scale with three wide components: a cube
CubeScale(spacing) ==
  << (9 * spacing) \div 10, (9 * spacing) \div 10, (9 * spacing) \div 10 >>

\* lines 56-59: panelSize = 0.9 * spacing, thickness = 0.05 * spacing
PanelScale(spacing) ==
  << (9 * spacing) \div 10, (9 * spacing) \div 10, spacing \div 20 >>

\* calculateCellTransform, lines 17-61: what it stores into dummy.  normal is
\* the vector before normalize(), which fixes the quaternion only
calculateCellTransform(x, y, z, width, height, depth, spacing) ==
  [ position |-> << Centered(x, width, spacing), Centered(y, width, spacing),
                    Centered(z, width, spacing) >>,
    normal   |-> << NormalComponent(x, width), NormalComponent(y, height),
                    NormalComponent(z, depth) >>,
    scale    |-> PanelScale(spacing) ]

\* spacings 0.1 and 0.5 (the spacing of the tests)
Spacings == { 20, 100 }

\* the calls calculateCellTransform(x, y, z, W, H, D, spacing) with sides
\* 1..GeomSide and (x, y, z) in range
TransformInputs ==
  { a \in (0..(GeomSide - 1)) \X (0..(GeomSide - 1)) \X (0..(GeomSide - 1))
          \X (1..GeomSide) \X (1..GeomSide) \X (1..GeomSide) \X Spacings :
      a[1] < a[4] /\ a[2] < a[5] /\ a[3] < a[6] }

InitGeometry ==
  /\ Init2D(<< >>)
  /\ Idle3D
  /\ IdleRefs
  /\ lastOp = "init"
  /\ lastArg \in TransformInputs
  /\ lastReturn = VoidReturn
  /\ pre = NoSnap
  /\ prevOp = "init"
  /\ pre2 = NoSnap
  /\ lastSource = << >>
  /\ sound = NoSound
  /\ ops = 0
  /\ budget = 1

\* one call of calculateCellTransform on the drawn arguments
CallTransform ==
  /\ ops < budget
  /\ lastOp' = "calculateCellTransform"
  /\ lastReturn' = calculateCellTransform(lastArg[1], lastArg[2], lastArg[3],
                     lastArg[4], lastArg[5], lastArg[6], lastArg[7])
  /\ ops' = ops + 1
  /\ UNCHANGED << vars2D, vars3D, refs, lastArg, pre, prevOp, pre2, lastSource, sound,
                  budget >>

SpecGeometry == InitGeometry /\ [][CallTransform]_vars

\* isShell of gridGeometry.ts for a lattice of the given sides
OnShell(x, y, z, width, height, depth) ==
  \/ x = 0 \/ x = width - 1
  \/ y = 0 \/ y = height - 1
  \/ z = 0 \/ z = depth - 1

\* C22: for every shell coordinate (face, edge or corner) the scale has
\* exactly one thin component, 0.05 x spacing and below 0.2 x spacing, and
\* two wide ones, 0.9 x spacing and above 0.5 x spacing.
C22_ShellPanelIsFlat ==
  ( /\ lastOp = "calculateCellTransform"
    /\ OnShell(lastArg[1], lastArg[2], lastArg[3],
               lastArg[4], lastArg[5], lastArg[6]) )
  => LET spacing == lastArg[7]
         scale   == lastReturn.scale
         thin    == { n \in 1..3 : scale[n] = spacing \div 20
                                   /\ 5 * scale[n] < spacing }
         wide    == { n \in 1..3 : scale[n] = (9 * spacing) \div 10
                                   /\ 2 * scale[n] > spacing }
     IN  Cardinality(thin) = 1 /\ Cardinality(wide) = 2

\* the transform of a corner of a 3 x 3 x 3 lattice
C22_Witness ==
  /\ lastOp = "calculateCellTransform"
  /\ lastArg[4] = 3 /\ lastArg[5] = 3 /\ lastArg[6] = 3
  /\ lastArg[1] = 0 /\ lastArg[2] = 2 /\ lastArg[3] = 0
  /\ lastReturn.normal = << -1, 1, -1 >>
  /\ lastReturn.scale = PanelScale(lastArg[7])

\* C23: for all sides (W, H, D) and every coordinate in range the panel is
\* placed at ((x - (W-1)/2) * spacing, (y - (H-1)/2) * spacing,
\* (z - (D-1)/2) * spacing): each axis centred by its own side.
C23_CenteredPerAxis ==
  lastOp = "calculateCellTransform"
  => lastReturn.position = << Centered(lastArg[1], lastArg[4], lastArg[7]),
                              Centered(lastArg[2], lastArg[5], lastArg[7]),
                              Centered(lastArg[3], lastArg[6], lastArg[7]) >>

\* C24: across step, draw and stamp a cell's age never decreases while the
\* cell stays alive, is 0 exactly when the cell is dead (never negative or
\* undefined), and never exceeds 255.
C24_AgeMonotoneWhileAlive ==
  lastOp \in {"step", "pointerDown", "pointerMove"}
  => \A i \in DOMAIN grid : \A k \in DOMAIN grid[i] :
       /\ grid[i][k] \in 0..255
       /\ ( /\ ~OutOfLattice(pre.grid, i, k)
            /\ pre.grid[i][k] > 0
            /\ grid[i][k] > 0 ) => grid[i][k] >= pre.grid[i][k]

(***************************************************************************)
(* The 3D step as a function of the whole array: one step of two arrays    *)
(* that hold the same shell and different interiors.                       *)
(***************************************************************************)
\* ages an interior cell p of an arbitrary Uint8Array may hold
InteriorFills ==
  { [p \in Coords3D |-> 0], [p \in Coords3D |-> 1], [p \in Coords3D |-> 255],
    [p \in Coords3D |-> (p[1] + p[2] + p[3]) % 2] }

\* the array with the shell cells of g and the interior cells of fill
WithInterior(g, fill) ==
  [idx \in 0..(TOTAL_CELLS - 1) |->
     LET p == << idx % WIDTH, (idx \div WIDTH) % HEIGHT,
                 idx \div (WIDTH * HEIGHT) >>
     IN  IF Interior(p) THEN fill[p] ELSE g[idx]]

InitTwins ==
  /\ \E bits \in RandomBits3D, f1 \in InteriorFills, f2 \in InteriorFills :
       /\ grid3 = WithInterior(generateRandomGrid(bits), f1)
       /\ lastArg = WithInterior(generateRandomGrid(bits), f2)
  /\ running3 = FALSE
  /\ timers = 0
  /\ selectedRule3 \in { RULE_SETS_3D[n] : n \in DOMAIN RULE_SETS_3D }
  /\ Idle2D
  /\ IdleRefs
  /\ lastOp = "init"
  /\ lastReturn = VoidReturn
  /\ pre = NoSnap
  /\ prevOp = "init"
  /\ pre2 = NoSnap
  /\ lastSource = << >>
  /\ sound = NoSound
  /\ ops = 0
  /\ budget = 1

\* runStep on grid3 and on the array held in lastArg
StepTwins ==
  /\ Enabled3D
  /\ grid3' = NextGrid3D(grid3, selectedRule3)
  /\ lastReturn' = NextGrid3D(lastArg, selectedRule3)
  /\ lastOp' = "stepTwins"
  /\ pre' = Snap3D
  /\ prevOp' = lastOp
  /\ pre2' = pre
  /\ ops' = ops + 1
  /\ UNCHANGED << vars2D, refs, running3, selectedRule3, timers, lastArg,
                  lastSource, sound,
                  budget >>

SpecTwins == InitTwins /\ [][StepTwins]_vars

\* C25: the 3D step never reads interior cells: two lattices that agree on
\* every shell coordinate have identical next lattices, however their
\* interiors differ.
C25_StepIgnoresInterior ==
  ( /\ lastOp = "stepTwins"
    /\ \A p \in Coords3D : ~Interior(p) => At3D(pre.grid, p) = At3D(lastArg, p) )
  => grid3 = lastReturn

\* twins whose interiors differ next to live shell cells, stepped to a lattice
\* that has live cells
C25_Witness ==
  /\ lastOp = "stepTwins"
  /\ \A p \in Coords3D : ~Interior(p) => At3D(pre.grid, p) = At3D(lastArg, p)
  /\ \E p \in Coords3D : Interior(p) /\ At3D(pre.grid, p) = 0
                                     /\ At3D(lastArg, p) = 255
  /\ \E p \in Coords3D : At3D(grid3, p) > 0
  /\ grid3 = lastReturn

(***************************************************************************)
(* A Glider stamped on the empty torus of side GliderSide, then stepped.   *)
(***************************************************************************)
InitGlider ==
  /\ numRows = GliderSide
  /\ numCols = GliderSide
  /\ grid = generateEmptyGrid(GliderSide, GliderSide)
  /\ selectedStamp = "Glider"
  /\ interactionMode = "stamp"
  /\ running = FALSE
  /\ generation = 0
  /\ selectedRule = RULE_SETS[1]
  /\ isMouseDown = FALSE
  /\ history = << >>
  /\ historyLength = 0
  /\ playbackIndex = Null
  /\ crashed = FALSE
  /\ Idle3D
  /\ InitLog(GliderSteps + 1)

\* the stamp, at any anchor
GliderStamp == ops = 0 /\ StampDown

\* the STEP button, once the Glider is stamped
GliderStep == ops > 0 /\ HandleNextStep

SpecGlider == InitGlider /\ [][GliderStamp \/ GliderStep]_vars

\* the cells of L that are alive
LiveSet(L) == { p \in CellsOf(L) : L[p[1]][p[2]] > 0 }

\* C26: on the N x N torus, N >= 16, holding only the 5-cell Glider stamped
\* at any anchor, 4 Conway steps yield the original live set translated by
\* (+1, +1) modulo N.  history[2] is the lattice the first step started from.
C26_GliderTranslates ==
  ( /\ lastOp = "step"
    /\ generation = 4
    /\ Len(history) = 5 )
  => LiveSet(grid) = { << (p[1] + 1) % Rows(grid), (p[2] + 1) % Cols(grid) >> :
                         p \in LiveSet(history[2]) }

\* a Glider stamped across the lattice's corner, after 4 steps
C26_Witness ==
  /\ lastOp = "step"
  /\ generation = 4
  /\ Len(history) = 5
  /\ LiveSet(history[2])
       = Footprint(PATTERNS.Glider, GliderSide - 1, GliderSide - 2,
                   GliderSide, GliderSide)
  /\ Cardinality(LiveSet(history[2])) = 5
  /\ Cardinality(LiveSet(grid)) = 5
  /\ << 0, 0 >> \in LiveSet(history[2])

(***************************************************************************)
(* A 2 x 2 block drawn on the empty lattice, then stepped under Conway.    *)
(***************************************************************************)
\* the cells of the 2 x 2 block whose top-left cell is (r, c), on the torus
BlockAt(r, c, rows, cols) ==
  { << r, c >>, << r, (c + 1) % cols >>, << (r + 1) % rows, c >>,
    << (r + 1) % rows, (c + 1) % cols >> }

InitBlock ==
  /\ \E rows \in 2..BlockSide, cols \in 2..BlockSide :
       /\ numRows = rows
       /\ numCols = cols
       /\ \E r \in 0..(rows - 1), c \in 0..(cols - 1) :
            grid = [i \in 0..(rows - 1) |-> [k \in 0..(cols - 1) |->
                      IF << i, k >> \in BlockAt(r, c, rows, cols) THEN 1
                      ELSE 0]]
  /\ selectedStamp = "Glider"
  /\ interactionMode = "draw"
  /\ running = FALSE
  /\ generation = 0
  /\ selectedRule = RULE_SETS[1]
  /\ isMouseDown = FALSE
  /\ history = << >>
  /\ historyLength = 0
  /\ playbackIndex = Null
  /\ crashed = FALSE
  /\ Idle3D
  /\ InitLog(BlockSteps)

SpecBlock == InitBlock /\ [][HandleNextStep]_vars

\* the live cells of L are exactly the four cells of a 2 x 2 block
IsBlock(L) ==
  /\ Cardinality(LiveSet(L)) = 4
  /\ \E p \in CellsOf(L) : LiveSet(L) = BlockAt(p[1], p[2], Rows(L), Cols(L))

\* C27: a lattice whose only live cells form a 2 x 2 block is unchanged by
\* a step under Conway rules, hence by any number of steps: the same four
\* cells are alive afterwards and no other cell is.
C27_BlockIsStill ==
  ( /\ lastOp = "step"
    /\ pre.rule = RULE_SETS[1]
    /\ IsBlock(pre.grid) )
  => LiveSet(grid) = LiveSet(pre.grid)

\* C27 as amended: the same on a lattice of at least 3 rows and 3 columns.
C27_BlockIsStillFromSide3 ==
  ( /\ lastOp = "step"
    /\ pre.rule = RULE_SETS[1]
    /\ IsBlock(pre.grid)
    /\ Rows(pre.grid) >= 3
    /\ Cols(pre.grid) >= 3 )
  => LiveSet(grid) = LiveSet(pre.grid)

\* the block across the corner of a 3 x 4 lattice, after BlockSteps steps
C27_Witness ==
  /\ lastOp = "step"
  /\ generation = BlockSteps
  /\ Rows(grid) = 3
  /\ Cols(grid) = 4
  /\ IsBlock(pre.grid)
  /\ LiveSet(grid) = BlockAt(2, 3, 3, 4)
  /\ grid[0][0] = BlockSteps + 1

(***************************************************************************)
(* Resizing down to nothing: a window lower or narrower than one cell.     *)
(***************************************************************************)
\* what calculateGridDimensions() yields for such a window: floor(inner /
\* cellSize) is 0
TinyWindows == { << 0, GridCols >>, << GridRows, 0 >>, << 0, 0 >> }

NextResize ==
  \/ \E size \in WindowSizes \cup TinyWindows : HandleResize(size[1], size[2])
  \/ \E size \in SizeButtons : HandleSizeChange(size[1], size[2])
  \/ \E newGrid \in RandomGrids(numRows, numCols) : HandleRandomize(newGrid)
  \/ HandleNextStep
  \/ HandleUndo

SpecResize == Init /\ [][NextResize]_vars

\* C28: a resize request with a non-positive row or column count is rejected
\* before any allocation: it does not throw, and the lattice, its dimensions
\* and the history are as they were.
C28_NonPositiveResizeRejected ==
  ( /\ lastOp \in ResizeOps
    /\ (lastArg[1] <= 0 \/ lastArg[2] <= 0) )
  => /\ ~crashed
     /\ grid = pre.grid
     /\ numRows = pre.numRows
     /\ numCols = pre.numCols
     /\ history = pre.history

(***************************************************************************)
(* Halting.                                                                *)
(***************************************************************************)
\* C29: while the running flag is false the scheduler performs no step: a
\* step made by an animation frame (2D) or a timer tick (3D) starts from a
\* state whose running flag is true, so with the flag false the lattice and
\* the generation counter change through user operations only.
C29_NoScheduledStepWhileHalted ==
  (lastOp = "step" /\ lastArg \in {"frame", "tick"}) => pre.running

\* the loop is started, then paused, then the STEP button makes one step
C29_Witness ==
  /\ prevOp = "startStop"
  /\ pre2.running
  /\ ~pre.running
  /\ lastOp = "step"
  /\ lastArg = "button"
  /\ generation = pre.generation + 1

(***************************************************************************)
(* Push before change.                                                     *)
(***************************************************************************)
\* C30: step, randomize, clear, pattern load and a pointer-down draw, erase
\* or stamp each push a copy of the lattice they start from before changing
\* it, so an undo right after restores exactly that lattice, also when the
\* operation was issued during a preview.
C30_PushThenUndoRestores ==
  /\ lastOp \in PushOps =>
       /\ Len(history) > 0
       /\ history[Len(history)] = pre.grid
  /\ (lastOp = "undo" /\ prevOp \in PushOps) => grid = pre2.grid

(***************************************************************************)
(* The 2D handlers at the level of array objects: which object each of     *)
(* them reads, copies, writes and stores.  The lattices the objects hold   *)
(* are computed by the operators above.                                    *)
(***************************************************************************)
\* the same array object handed on instead of a copy
ShareLattice(h, id) == [heap |-> h, id |-> id]

\* g.map(row => [...row]): a new object holding the cells of object id
CopyLattice(h, id) == [heap |-> Append(h, h[id]), id |-> Len(h) + 1]

\* addToHistory(gridState), lines 292-304, gridState being object id
RefPush(h, ids, p, id) ==
  LET stateCopy == CopyLattice(h, id)
  IN  [heap |-> stateCopy.heap, ids |-> AddToHistory(ids, p, stateCopy.id)]

RecordRef(op, arg) ==
  /\ lastOp' = op
  /\ lastArg' = arg
  /\ lastReturn' = VoidReturn
  /\ pre' = [ heap |-> heap, gridId |-> gridId, historyIds |-> historyIds,
              playbackIndex |-> playbackIndex ]
  /\ prevOp' = lastOp
  /\ pre2' = pre
  /\ lastSource' = << >>
  /\ sound' = NoSound
  /\ ops' = ops + 1
  /\ UNCHANGED << numRows, numCols, grid, running, generation, selectedRule,
                  interactionMode, selectedStamp, isMouseDown, history,
                  historyLength, crashed, vars3D, budget >>

\* runStep, lines 306-354
RefStep ==
  LET pushed  == RefPush(heap, historyIds, playbackIndex, gridId)
      newGrid == CopyLattice(pushed.heap, gridId)
  IN  /\ ops < budget
      /\ heap' = [newGrid.heap EXCEPT ![newGrid.id] =
                    StepBuffers(heap[gridId], selectedRule).newGrid]
      /\ gridId' = newGrid.id
      /\ historyIds' = pushed.ids
      /\ playbackIndex' = Null
      /\ RecordRef("step", "button")

\* handleCellInteract(r, c, 'down') in draw (val 1) or erase (val 0) mode,
\* lines 537-575
RefInteract(r, c, val) ==
  LET pushed  == RefPush(heap, historyIds, playbackIndex, gridId)
      newGrid == CopyLattice(pushed.heap, gridId)
  IN  /\ ops < budget
      /\ IF heap[gridId][r][c] = val
           THEN /\ heap' = pushed.heap
                /\ gridId' = gridId
           ELSE /\ heap' = [newGrid.heap EXCEPT ![newGrid.id] =
                              SetCell(newGrid.heap[newGrid.id], r, c, val)]
                /\ gridId' = newGrid.id
      /\ historyIds' = pushed.ids
      /\ playbackIndex' = Null
      /\ RecordRef("pointerDown", << r, c >>)

\* handleRandomize, handleClear, lines 445-462: a new array becomes the
\* lattice
RefReplace(newGrid) ==
  LET pushed == RefPush(heap, historyIds, playbackIndex, gridId)
  IN  /\ ops < budget
      /\ heap' = Append(pushed.heap, newGrid)
      /\ gridId' = Len(pushed.heap) + 1
      /\ historyIds' = pushed.ids
      /\ playbackIndex' = Null
      /\ RecordRef("randomize", 0)

\* handleUndo, lines 416-428, with a frame to pop
RefUndo ==
  /\ ops < budget
  /\ Len(historyIds) > 0
  /\ gridId' = UndoFrame(historyIds)
  /\ historyIds' = UndoRest(historyIds)
  /\ playbackIndex' = Null
  /\ UNCHANGED heap
  /\ RecordRef("undo", 0)

\* handleScrub(index), lines 430-443, on a frame
RefScrub(index) ==
  LET shown == CopyLattice(heap, ScrubGrid(historyIds, index))
  IN  /\ ops < budget
      /\ HasFrame(historyIds, index)
      /\ heap' = shown.heap
      /\ gridId' = shown.id
      /\ historyIds' = ScrubHistory(historyIds, index)
      /\ playbackIndex' = index
      /\ RecordRef("scrub", index)

InitRefs ==
  /\ Init2D(<< >>)
  /\ Idle3D
  /\ heap = << generateEmptyGrid(GridRows, GridCols) >>
  /\ gridId = 1
  /\ historyIds = << >>
  /\ lastOp = "init"
  /\ lastArg = 0
  /\ lastReturn = VoidReturn
  /\ pre = NoSnap
  /\ prevOp = "init"
  /\ pre2 = NoSnap
  /\ lastSource = << >>
  /\ sound = NoSound
  /\ ops = 0
  /\ budget = MaxRefOps

SpecRefs ==
  InitRefs
  /\ [][ \/ RefStep
         \/ \E r \in {0, GridRows - 1}, val \in {0, 1} : RefInteract(r, r, val)
         \/ \E newGrid \in RandomGrids(GridRows, GridCols) : RefReplace(newGrid)
         \/ RefUndo
         \/ \E index \in 0..(MaxRefOps - 1) : RefScrub(index) ]_vars

\* C31: history frames are immutable deep snapshots: an operation on the
\* current lattice (step, draw, erase, randomize, clear, undo, scrub) leaves
\* the contents of every frame that stays in the buffer as they were, also
\* an edit of the lattice that scrub shows.
C31_FramesAreImmutable ==
  lastOp # "init" =>
    \A j \in 1..Len(historyIds) :
      (\E i \in 1..Len(pre.historyIds) : pre.historyIds[i] = historyIds[j])
      => heap[historyIds[j]] = pre.heap[historyIds[j]]

\* a preview of the second frame is edited; the first frame stays stored, and
\* the edit changed the lattice that was shown
C31_Witness ==
  /\ lastOp = "pointerDown"
  /\ prevOp = "scrub"
  /\ pre.playbackIndex = 1
  /\ Len(historyIds) = 2
  /\ historyIds[1] = pre.historyIds[1]
  /\ heap[gridId] # pre.heap[pre.gridId]
  /\ heap[historyIds[2]] = pre.heap[pre.gridId]

(***************************************************************************)
(* Births reported to the sound engine.                                    *)
(***************************************************************************)
\* the sum of the row numbers of the cells in S, over the rows 0..i
RECURSIVE RowSum(_, _)
RowSum(S, i) ==
  IF i < 0 THEN 0
  ELSE i * Cardinality({ p \in S : p[1] = i }) + RowSum(S, i - 1)

\* C32: after a 2D step the birth count handed to the sound engine is the
\* number of cells dead before the step and alive after it, and the birth
\* row sum is the sum of the row numbers of those cells; survivors are not
\* counted, and the sound engine is not called when no cell was born.
C32_BirthsReported ==
  (lastOp = "step" /\ Rows(pre.grid) > 0) =>
    LET births == { p \in CellsOf(pre.grid) :
                      pre.grid[p[1]][p[2]] = 0 /\ grid[p[1]][p[2]] > 0 }
    IN  IF births = {}
          THEN ~sound.called
          ELSE /\ sound.called
               /\ sound.bornCount = Cardinality(births)
               /\ sound.bornRowSum = RowSum(births, Rows(pre.grid) - 1)

\* a step with births in two rows and with a survivor
C32_Witness ==
  /\ lastOp = "step"
  /\ sound.called
  /\ sound.bornCount >= 2
  /\ sound.bornRowSum > sound.bornCount
  /\ \E p \in CellsOf(pre.grid) : pre.grid[p[1]][p[2]] > 0 /\ grid[p[1]][p[2]] > 1
  /\ \E p \in CellsOf(pre.grid), q \in CellsOf(pre.grid) :
       /\ p[1] # q[1]
       /\ pre.grid[p[1]][p[2]] = 0 /\ grid[p[1]][p[2]] = 1
       /\ pre.grid[q[1]][q[2]] = 0 /\ grid[q[1]][q[2]] = 1

(***************************************************************************)
(* The 3D simulation loop under play / pause and due timers.               *)
(***************************************************************************)
InitLoop3D ==
  (\E bits \in RandomBits3D : Init3D(bits)) /\ Idle2D /\ InitLog(MaxLoopOps)

SpecLoop3D == InitLoop3D /\ [][HandleStartStop3D \/ RunSimulation]_vars

\* C33: at most one self-rescheduling simulation loop is active: under any
\* interleaving of play / pause and timer callbacks, also pause followed by
\* play before the pending timer fires, at most one scheduled step callback
\* is pending.
C33_SingleLoop == timers <= 1

(***************************************************************************)
(* Generation counter, preview index, strokes.                             *)
(***************************************************************************)
\* C34: the generation counter is never negative and equals the number of
\* steps that led to the current lattice since the last reset, net of undone
\* steps: an undo right after a push restores the lattice the pushing
\* handler started from (C30), so the counter is the one that lattice had,
\* also when the handler undone was an edit, a clear or a randomize.
C34_GenerationCountsSteps ==
  /\ generation >= 0
  /\ (lastOp = "undo" /\ prevOp \in PushOps) => generation = pre2.generation

\* C35: in every state of the 2D component the preview index is none or an
\* index of a frame of the history buffer, and the historyLength shown to
\* the UI is the number of frames in the buffer.
C35_PreviewIndexValid ==
  /\ playbackIndex = Null \/ HasFrame(history, playbackIndex)
  /\ historyLength = Len(history)

\* the newest of several frames is previewed
C35_Witness ==
  /\ lastOp = "scrub"
  /\ playbackIndex # Null
  /\ playbackIndex = Len(history) - 1
  /\ Len(history) >= 2
  /\ historyLength = Len(history)

\* pointer events with the button down or up, mode changes and undo
SpecStroke ==
  Init
  /\ [][ \/ \E p \in PointerCells : PointerDown(p[1], p[2])
         \/ \E p \in PointerCells : PointerMove(p[1], p[2])
         \/ MouseUp
         \/ \E mode \in {"draw", "erase", "stamp"} : SetInteractionMode(mode)
         \/ HandleUndo ]_vars

\* C36: a drag stroke adds exactly one history frame, taken before the first
\* edit: the pointer-down pushes the lattice it starts from, a pointer-enter
\* leaves the buffer as it is, and the undo after the stroke makes the
\* buffer's newest frame, the one the pointer-down pushed, the lattice; a
\* pointer-enter with the button up changes nothing.
C36_StrokePushesOnce ==
  /\ lastOp = "pointerDown" => history[Len(history)] = pre.grid
  /\ lastOp = "pointerMove" =>
       /\ history = pre.history
       /\ playbackIndex = pre.playbackIndex
       /\ ~isMouseDown => grid = pre.grid
  /\ (lastOp = "pointerMove" /\ prevOp = "pointerDown") =>
       history[Len(history)] = pre2.grid
  /\ (lastOp = "undo" /\ prevOp = "pointerMove" /\ Len(pre2.history) > 0) =>
       /\ grid = pre2.history[Len(pre2.history)]
       /\ Len(history) = Len(pre2.history) - 1

\* a stroke of two cells from the empty lattice, undone
C36_Witness ==
  /\ lastOp = "undo"
  /\ prevOp = "pointerMove"
  /\ \E p \in CellsOf(pre.grid) : pre.grid[p[1]][p[2]] = 1
  /\ pre.grid # pre2.grid
  /\ pre2.grid # grid
  /\ grid = generateEmptyGrid(GridRows, GridCols)
  /\ history = << >>

(***************************************************************************)
(* The 3D renderer: GridRenderingGroup draws the lattice as six            *)
(* FaceInstancedMesh components.  Lengths are in units of 1/400.           *)
(***************************************************************************)
\* const SPACING = 0.25, GameOfLife3D.tsx line 17
SPACING == 100

\* a filter that lets every cell through
faceFilterAny(face, x, y, z) == TRUE

\* fRight .. fBack, lines 359-364
faceFilter(face, x, y, z) ==
  CASE face = "right"  -> x = WIDTH - 1
    [] face = "left"   -> x = 0
    [] face = "top"    -> y = HEIGHT - 1
    [] face = "bottom" -> y = 0
    [] face = "front"  -> z = DEPTH - 1
    [] face = "back"   -> z = 0

\* FaceInstancedMesh, lines 246-344: the instances the effect writes before
\* instanceIdx, in index order; the instances after them get the scale
\* (0, 0, 0) and draw nothing.  cell names the lattice cell of the instance.
FaceInstancedMesh(g, faceNormal, face, fixedAxis, fixedValue) ==
  LET drawn(i) ==
        LET c == getCoords(i, WIDTH, HEIGHT)
        IN  g[i] > 0 /\ faceFilter(face, c.x, c.y, c.z)
      cells == SelectSeq([k \in 1..TOTAL_CELLS |-> k - 1], drawn)
      instance(i) ==
        LET c == getCoords(i, WIDTH, HEIGHT)
            px == Centered(c.x, WIDTH, SPACING)
            py == Centered(c.y, WIDTH, SPACING)
            pz == Centered(c.z, WIDTH, SPACING)
        IN  [ cell     |-> << c.x, c.y, c.z >>,
              position |-> << IF fixedAxis = "x" THEN fixedValue ELSE px,
                              IF fixedAxis = "y" THEN fixedValue ELSE py,
                              IF fixedAxis = "z" THEN fixedValue ELSE pz >>,
              normal   |-> faceNormal,
              scale    |-> << (9 * SPACING) \div 10, (9 * SPACING) \div 10,
                              SPACING \div 20 >> ]
  IN  [k \in 1..Len(cells) |-> instance(cells[k])]

\* GridRenderingGroup, lines 346-379
GridRenderingGroup(g) ==
  LET wallDist == (WIDTH * SPACING) \div 2
  IN  [ right  |-> FaceInstancedMesh(g, << 1, 0, 0 >>, "right", "x", wallDist),
        left   |-> FaceInstancedMesh(g, << -1, 0, 0 >>, "left", "x", -wallDist),
        top    |-> FaceInstancedMesh(g, << 0, 1, 0 >>, "top", "y", wallDist),
        bottom |-> FaceInstancedMesh(g, << 0, -1, 0 >>, "bottom", "y", -wallDist),
        front  |-> FaceInstancedMesh(g, << 0, 0, 1 >>, "front", "z", wallDist),
        back   |-> FaceInstancedMesh(g, << 0, 0, -1 >>, "back", "z", -wallDist) ]

\* the effects of the six meshes after grid changed
Render ==
  /\ lastOp # "render"
  /\ lastOp' = "render"
  /\ lastReturn' = GridRenderingGroup(grid3)
  /\ UNCHANGED << vars2D, vars3D, refs, lastArg, pre, prevOp, pre2,
                  lastSource, sound, ops, budget >>

\* arrays with any interior, toggled or stepped once, and drawn
SpecRender ==
  InitTwins
  /\ [][ \/ Render
         \/ StepButton3D
         \/ \E p \in ToggleInputs : HandleToggleCell(p[1], p[2], p[3]) ]_vars

\* C37: for each cell of the drawn lattice the renderer emits exactly one
\* panel per cube face the cell lies on if the cell is alive (1 for a face
\* cell, 2 for an edge cell, 3 for a corner cell), each with that face's
\* single-axis normal and the scale (0.9, 0.9, 0.05) x SPACING, and no panel
\* if the cell is dead or interior.
C37_OnePanelPerFace ==
  lastOp = "render" =>
    \A p \in Coords3D :
      LET sides == << WIDTH, HEIGHT, DEPTH >>
          axisNormal(a, s) == [b \in 1..3 |-> IF b = a THEN s ELSE 0]
          expected ==
            IF At3D(grid3, p) > 0
            THEN { axisNormal(a, -1) : a \in { b \in 1..3 : p[b] = 0 } }
                 \cup { axisNormal(a, 1) :
                          a \in { b \in 1..3 : p[b] = sides[b] - 1 } }
            ELSE { }
          panels ==
            { i \in UNION { { f } \X DOMAIN lastReturn[f] :
                              f \in DOMAIN lastReturn } :
                lastReturn[i[1]][i[2]].cell = p }
      IN  /\ Cardinality(panels) = Cardinality(expected)
          /\ { lastReturn[i[1]][i[2]].normal : i \in panels } = expected
          /\ \A i \in panels : lastReturn[i[1]][i[2]].scale = << 90, 90, 5 >>
          /\ Interior(p) => panels = { }
          /\ (At3D(grid3, p) > 0 /\ ~Interior(p)) =>
               Cardinality(panels) \in 1..3

\* a drawn lattice with a live corner, a live edge cell, a live face cell, a
\* live interior cell and a dead shell cell
C37_Witness ==
  /\ lastOp = "render"
  /\ At3D(grid3, << 0, 0, 0 >>) > 0
  /\ At3D(grid3, << 1, 0, 0 >>) > 0
  /\ At3D(grid3, << 1, 1, 0 >>) > 0
  /\ At3D(grid3, << 1, 1, 1 >>) > 0
  /\ \E p \in Coords3D : ~Interior(p) /\ At3D(grid3, p) = 0
  /\ Len(lastReturn.left) > 0
  /\ Len(lastReturn.back) > 0

\* C38: for sides W, H, D >= 2 and every shell coordinate the normal before
\* normalization has each component in {-1, 0, +1}: -1 where the coordinate
\* is 0, +1 where it is the last one of its axis, 0 otherwise; between one
\* and three components are nonzero (1 face, 2 edge, 3 corner).
C38_NormalPointsOutward ==
  ( /\ lastOp = "calculateCellTransform"
    /\ lastArg[4] >= 2 /\ lastArg[5] >= 2 /\ lastArg[6] >= 2
    /\ OnShell(lastArg[1], lastArg[2], lastArg[3],
               lastArg[4], lastArg[5], lastArg[6]) )
  => LET normal  == lastReturn.normal
         nonzero == { a \in 1..3 : normal[a] # 0 }
         onEdge  == { a \in 1..3 : lastArg[a] \in { 0, lastArg[a + 3] - 1 } }
     IN  /\ \A a \in 1..3 :
               /\ normal[a] \in { -1, 0, 1 }
               /\ normal[a] = -1 <=> lastArg[a] = 0
               /\ normal[a] = 1 <=> lastArg[a] = lastArg[a + 3] - 1
         /\ Cardinality(nonzero) \in 1..3
         /\ nonzero = onEdge

\* the transform of an edge cell of a 2 x 3 x 3 lattice: two nonzero
\* components, one of each sign
C38_Witness ==
  /\ lastOp = "calculateCellTransform"
  /\ lastArg[4] = 2 /\ lastArg[5] = 3 /\ lastArg[6] = 3
  /\ lastArg[1] = 1 /\ lastArg[2] = 1 /\ lastArg[3] = 0
  /\ lastReturn.normal = << 1, 0, -1 >>

\* getIndex on the drawn coordinate, getCoords on its result, and getCoords
\* then getIndex on every index of the lattice
CallIndex ==
  /\ ops < budget
  /\ lastOp' = "getIndex"
  /\ lastReturn' =
       LET width  == lastArg[4]
           height == lastArg[5]
           depth  == lastArg[6]
           index  == getIndex(lastArg[1], lastArg[2], lastArg[3], width, height)
       IN  [ index  |-> index,
             coords |-> getCoords(index, width, height),
             back   |-> [i \in 0..(width * height * depth - 1) |->
                           LET c == getCoords(i, width, height)
                           IN  [ coords |-> c,
                                 index  |-> getIndex(c.x, c.y, c.z,
                                                     width, height) ]] ]
  /\ ops' = ops + 1
  /\ UNCHANGED << vars2D, vars3D, refs, lastArg, pre, prevOp, pre2,
                  lastSource, sound, budget >>

SpecIndex == InitGeometry /\ [][CallIndex]_vars

\* C39: for sides W, H, D >= 1 and every coordinate in range getIndex
\* returns x + y*W + z*W*H, which lies in [0, W*H*D) and differs from the
\* index of every other coordinate in range, and getCoords gives the
\* coordinate back; getIndex(getCoords(i)) = i for every i in [0, W*H*D).
C39_IndexIsBijection ==
  lastOp = "getIndex" =>
    LET x == lastArg[1]
        y == lastArg[2]
        z == lastArg[3]
        W == lastArg[4]
        H == lastArg[5]
        D == lastArg[6]
    IN  /\ lastReturn.index = x + y * W + z * W * H
        /\ lastReturn.index \in 0..(W * H * D - 1)
        /\ \A q \in (0..(W - 1)) \X (0..(H - 1)) \X (0..(D - 1)) :
             q # << x, y, z >> =>
               getIndex(q[1], q[2], q[3], W, H) # lastReturn.index
        /\ lastReturn.coords = [x |-> x, y |-> y, z |-> z]
        /\ \A i \in 0..(W * H * D - 1) :
             /\ lastReturn.back[i].index = i
             /\ lastReturn.back[i].coords.x \in 0..(W - 1)
             /\ lastReturn.back[i].coords.y \in 0..(H - 1)
             /\ lastReturn.back[i].coords.z \in 0..(D - 1)

\* the last cell of a 2 x 3 x 3 lattice: index 17 of 18
C39_Witness ==
  /\ lastOp = "getIndex"
  /\ lastArg[4] = 2 /\ lastArg[5] = 3 /\ lastArg[6] = 3
  /\ lastArg[1] = 1 /\ lastArg[2] = 2 /\ lastArg[3] = 2
  /\ lastReturn.index = 17
  /\ lastReturn.coords = [x |-> 1, y |-> 2, z |-> 2]
  /\ lastReturn.back[17].index = 17

====
